---------------------------- MODULE Spec2Model ----------------------------
(***************************************************************************)
(* Model of the rental-listing aggregator: the web layer of src/main.py    *)
(* (search, pagination, featured flag, deduplication, trending counters)   *)
(* and the scraping layer of src/a.py (source adapters, strict filter,     *)
(* run_and_combine_all).                                                   *)
(*                                                                         *)
(* Text is modelled as a sequence of one-character strings, so that        *)
(* strip, lower, substring search and digit extraction are computed the    *)
(* way the code computes them.  An optional value (Python None) is the     *)
(* empty tuple <<>> and a present value v is <<v>>.                        *)
(* Scores are floats in the code; here they are exact rationals            *)
(* <<numerator, denominator>> compared by cross-multiplication.            *)
(***************************************************************************)
EXTENDS Integers, Sequences, FiniteSets, TLC

VARIABLES
    SEARCH_STATS,   \* main.py:244, insertion-ordered dict: sequence of [key, count]
    response,       \* the SearchResponse of the last search request (or NoResponse)
    lastReq,        \* the last search request: query, page, page_size, scraper outcome
    pgIn,           \* paginate: the call's arguments [items, page, page_size]
    pgOut,          \* paginate: the call's result [slice, meta]
    fIn,            \* _filter_df_strict: the call's arguments
    fOut,           \* _filter_df_strict: the returned frame
    ad,             \* the adapter call in progress (src/a.py scrape_*)
    sessions,       \* browser sessions ever created: id -> "open" | "quit" | "quit_failed"
    calls,          \* number of finished adapter calls
    combine,        \* run_and_combine_all: loop state
    th,             \* request handlers running concurrently
    mf,             \* mark_featured_one: the call's list and the returned list
    Session,        \* models.py:28-37, the sessions table: rows in insertion order
    auth,           \* the auth handler call in progress (src/auth.py)
    utcnow,         \* datetime.utcnow(), in days
    STATS_LOCK,     \* main.py:245, holder of the lock (0: free)
    HOME_CACHE,     \* main.py:272, the cached home feed and its expiry
    now,            \* the clock datetime.utcnow() reads, in minutes
    hf,             \* home-feed requests in progress
    hp,             \* the home-feed payload computed on its own: input and result
    nes,            \* scrape_nestoria: the call in progress
    kwf,            \* _filter_by_keywords: input and result
    tr,             \* trending: the request in progress
    sel             \* selector chains: input and result

searchVars == <<SEARCH_STATS, response, lastReq>>
pgVars     == <<pgIn, pgOut>>
fVars      == <<fIn, fOut>>
adVars     == <<ad, sessions, calls>>
combineVars == <<combine>>
thVars     == <<th, STATS_LOCK>>
homeVars   == <<HOME_CACHE, now, hf, hp>>
callVars   == <<nes, kwf, tr, sel>>
featVars   == <<mf>>
authVars   == <<Session, auth, utcnow>>
notAdVars == <<searchVars, pgVars, fVars, featVars, authVars, combineVars, thVars, homeVars, callVars>>
vars == <<SEARCH_STATS, response, lastReq, pgIn, pgOut, fIn, fOut,
          ad, sessions, calls, combine, th, STATS_LOCK,
          HOME_CACHE, now, hf, hp, nes, kwf, tr, sel, mf, Session, auth, utcnow>>

---------------------------------------------------------------------------
(* Text helpers: Python str operations on sequences of characters.         *)

None == <<>>
Some(v) == <<v>>

Min(S) == CHOOSE x \in S : \A y \in S : x <= y
Max(S) == CHOOSE x \in S : \A y \in S : x >= y

DigitChars == <<"0","1","2","3","4","5","6","7","8","9">>
UpperChars == <<"A","B","C","D","E","F","G","H","I","J","K","L","M",
                "N","O","P","Q","R","S","T","U","V","W","X","Y","Z">>
LowerChars == <<"a","b","c","d","e","f","g","h","i","j","k","l","m",
                "n","o","p","q","r","s","t","u","v","w","x","y","z">>

DigitSet == {DigitChars[i] : i \in 1..Len(DigitChars)}
DigitMap == [c \in DigitSet |-> (CHOOSE i \in 1..Len(DigitChars) : DigitChars[i] = c) - 1]
UpperSet == {UpperChars[i] : i \in 1..Len(UpperChars)}
LowerSet == {LowerChars[i] : i \in 1..Len(LowerChars)}
ToLowerMap == [c \in UpperSet |-> LowerChars[CHOOSE i \in 1..Len(UpperChars) : UpperChars[i] = c]]
ToUpperMap == [c \in LowerSet |-> UpperChars[CHOOSE i \in 1..Len(LowerChars) : LowerChars[i] = c]]

IsDigit(c) == c \in DigitSet
DigitVal(c) == DigitMap[c]
IsSpace(c) == c \in {" ", "\t", "\n"}

\* str.lower() / str.upper(), one character
lowerChar(c) == IF c \in UpperSet THEN ToLowerMap[c] ELSE c
upperChar(c) == IF c \in LowerSet THEN ToUpperMap[c] ELSE c
RECURSIVE lower(_)
lower(s) == IF s = <<>> THEN <<>> ELSE <<lowerChar(Head(s))>> \o lower(Tail(s))
RECURSIVE upper(_)
upper(s) == IF s = <<>> THEN <<>> ELSE <<upperChar(Head(s))>> \o upper(Tail(s))

\* str.strip(): leading and trailing whitespace removed, inner whitespace kept
strip(s) ==
    LET keep == {i \in 1..Len(s) : ~IsSpace(s[i])}
    IN  IF keep = {} THEN <<>> ELSE SubSeq(s, Min(keep), Max(keep))

\* `sub in s`
contains(sub, s) ==
    \E i \in 0..(Len(s) - Len(sub)) : SubSeq(s, i + 1, i + Len(sub)) = sub
startswith(s, prefix) ==
    Len(s) >= Len(prefix) /\ SubSeq(s, 1, Len(prefix)) = prefix

\* re.sub(r"[^\d]", "", s)
onlyDigits(s) == SelectSeq(s, IsDigit)

\* int() of a string of digits
RECURSIVE toInt(_)
toInt(ds) ==
    IF ds = <<>> THEN 0
    ELSE 10 * toInt(SubSeq(ds, 1, Len(ds) - 1)) + DigitVal(ds[Len(ds)])

\* str() of an int
RECURSIVE natToStr(_)
natToStr(n) ==
    IF n < 10 THEN <<DigitChars[n + 1]>>
    ELSE natToStr(n \div 10) \o <<DigitChars[(n % 10) + 1]>>
intToStr(n) == IF n < 0 THEN <<"-">> \o natToStr(0 - n) ELSE natToStr(n)

\* the first maximal run of digits of s, cut to maxLen characters (re.search of
\* \d+ or \d{1,4}); <<>> when s holds no digit
firstDigitRun(s, maxLen) ==
    LET ds == {i \in 1..Len(s) : IsDigit(s[i])}
    IN  IF ds = {} THEN <<>>
        ELSE LET a == Min(ds)
                 stop == {j \in a..Len(s) : \A k \in a..j : IsDigit(s[k])}
                 b == Max(stop)
             IN  SubSeq(s, a, Min({b, a + maxLen - 1}))

\* str.split(): the maximal runs of non-whitespace characters, in order
RECURSIVE split(_)
split(s) ==
    LET t == strip(s)
    IN  IF t = <<>> THEN <<>>
        ELSE LET sp == {i \in 1..Len(t) : IsSpace(t[i])}
             IN  IF sp = {} THEN <<t>>
                 ELSE <<SubSeq(t, 1, Min(sp) - 1)>>
                          \o split(SubSeq(t, Min(sp), Len(t)))

\* Python slice items[start:end] (negative and out-of-range indices as Python
\* treats them)
pySlice(items, start, end) ==
    LET n == Len(items)
        norm(i) == IF i < 0 THEN Max({n + i, 0}) ELSE Min({i, n})
    IN  SubSeq(items, norm(start) + 1, norm(end))

---------------------------------------------------------------------------
(* src/main.py: pagination.                                                *)

DEFAULT_PAGE_SIZE == 20
MAX_PAGE_SIZE == 20

\* a positive page_size passed on as it is
clamp_page_size_nomax(page_size) ==
    IF page_size = None \/ page_size[1] <= 0 THEN DEFAULT_PAGE_SIZE
    ELSE page_size[1]

\* main.py:126-129; the argument is Optional[int]
clamp_page_size(page_size) ==
    IF page_size = None \/ page_size[1] <= 0 THEN DEFAULT_PAGE_SIZE
    ELSE Min({page_size[1], MAX_PAGE_SIZE})

\* main.py:131-132
clamp_page(page) ==
    IF page = None \/ page[1] <= 0 THEN 1 ELSE page[1]

paginate_noclamp(items, page, page_size) ==
    LET total == Len(items)
        total_pages == Max({1, (total + page_size - 1) \div page_size})
        start == (page - 1) * page_size
    IN  [slice |-> pySlice(items, start, start + page_size),
         meta  |-> [page |-> page, page_size |-> page_size, total |-> total,
                    total_pages |-> total_pages,
                    has_prev |-> page > 1, has_next |-> page < total_pages]]

\* main.py:134-150
paginate(items, page, page_size) ==
    LET total == Len(items)
        total_pages == Max({1, (total + page_size - 1) \div page_size})
        pg == IF page > total_pages THEN total_pages ELSE page
        start == (pg - 1) * page_size
        end == start + page_size
    IN  [slice |-> pySlice(items, start, end),
         meta  |-> [page |-> pg, page_size |-> page_size, total |-> total,
                    total_pages |-> total_pages,
                    has_prev |-> pg > 1, has_next |-> pg < total_pages]]

---------------------------------------------------------------------------
(* src/main.py: listings, score, featured flag, deduplication.             *)

\* a listing dict; is_featured defaults to False (main.py:101)
Listing(titulo, precio, m2, descripcion, link, fuente) ==
    [titulo |-> titulo, precio |-> precio, m2 |-> m2, dormitorios |-> <<>>,
     banos |-> <<>>, descripcion |-> descripcion, link |-> link,
     fuente |-> fuente, is_featured |-> FALSE]

FEATURE_KEYWORDS == <<
    <<"p","i","s","c","i","n","a">>,
    <<"m","a","s","c","o","t","a">>,
    <<"m","a","s","c","o","t","a","s">>,
    <<"c","o","c","h","e","r","a">>,
    <<"e","s","t","a","c","i","o","n","a","m","i","e","n","t","o">>,
    <<"t","e","r","r","a","z","a">>,
    <<"b","a","l","c","o","n">>,
    <<"a","s","c","e","n","s","o","r">>,
    <<"g","i","m","n","a","s","i","o">>,
    <<"a","m","o","b","l","a","d","o">>,
    <<"a","m","o","b","l","a","d","a">> >>

\* main.py:191-213.  The result is the rational <<num, den>>, den > 0:
\*   keywords + 3000/max(val,1) + min(m2,120)/400
score_property(p) ==
    LET text == lower(p.titulo \o <<" ">> \o p.descripcion)
        kw == Cardinality({i \in 1..Len(FEATURE_KEYWORDS) :
                              contains(FEATURE_KEYWORDS[i], text)})
        s == p.precio
        nums == onlyDigits(s)
        priced == startswith(upper(strip(s)), <<"S">>) /\ nums # <<>>
        val == Max({toInt(nums), 1})
        m2run == firstDigitRun(p.m2, 4)
        m2 == IF m2run = <<>> THEN 0 ELSE Min({toInt(m2run), 120})
    IN  IF priced
        THEN <<(kw * 400 + m2) * val + 3000 * 400, 400 * val>>
        ELSE <<kw * 400 + m2, 400>>

\* a/b > c/d for b, d > 0, by quotients and remainders (no product is formed)
RECURSIVE ratGT(_, _, _, _)
ratGT(a, b, c, d) ==
    LET qa == a \div b
        qc == c \div d
        ra == a % b
        rc == c % d
    IN  IF qa # qc THEN qa > qc
        ELSE IF ra = 0 THEN FALSE
        ELSE IF rc = 0 THEN TRUE
        ELSE ratGT(d, rc, b, ra)

\* x > y on scores
scoreGT(x, y) == ratGT(x[1], x[2], y[1], y[2])

\* the scan in which a later listing of equal score replaces the best
RECURSIVE bestScan_gte(_, _, _, _)
bestScan_gte(items, i, best_idx, best_score) ==
    IF i > Len(items) THEN best_idx
    ELSE LET sc == score_property(items[i])
         IN  IF ~scoreGT(best_score, sc)
             THEN bestScan_gte(items, i + 1, i, sc)
             ELSE bestScan_gte(items, i + 1, best_idx, best_score)

\* main.py:218-224: the scan for the best index; best_idx 0 stands for None
RECURSIVE bestScan(_, _, _, _)
bestScan(items, i, best_idx, best_score) ==
    IF i > Len(items) THEN best_idx
    ELSE LET sc == score_property(items[i])
         IN  IF scoreGT(sc, best_score)
             THEN bestScan(items, i + 1, i, sc)
             ELSE bestScan(items, i + 1, best_idx, best_score)

\* main.py:215-227
mark_featured_one(items) ==
    IF items = <<>> THEN items
    ELSE LET best_idx == bestScan(items, 1, 0, <<0 - 1000000000, 1>>)
         IN  [i \in 1..Len(items) |->
                 [items[i] EXCEPT !.is_featured = (i = best_idx)]]

\* main.py:233-234: the identity key of a listing
dedupeKey(p) ==
    LET link == strip(p.link)
    IN  IF link # <<>> THEN link ELSE p.titulo \o <<"|">> \o p.fuente

RECURSIVE dedupeScan(_, _, _, _)
dedupeScan(items, i, seen, out) ==
    IF i > Len(items) THEN out
    ELSE LET key == dedupeKey(items[i])
         IN  IF key \in seen
             THEN dedupeScan(items, i + 1, seen, out)
             ELSE dedupeScan(items, i + 1, seen \cup {key}, Append(out, items[i]))

dedupe_none(items) == items

\* main.py:229-239
dedupe_by_link(items) == dedupeScan(items, 1, {}, <<>>)

---------------------------------------------------------------------------
(* src/main.py: trending counters.                                         *)

Query(zona, dormitorios, banos, price_min, price_max, palabras_clave) ==
    [zona |-> zona, dormitorios |-> dormitorios, banos |-> banos,
     price_min |-> price_min, price_max |-> price_max,
     palabras_clave |-> palabras_clave]

optStr(x) == IF x = None THEN <<>> ELSE intToStr(x[1])

stats_key_nolower(q) ==
    LET dormitorios == IF q.dormitorios = <<>> THEN <<"0">> ELSE q.dormitorios
        banos == IF q.banos = <<>> THEN <<"0">> ELSE q.banos
    IN  strip(q.zona) \o <<"|">> \o dormitorios \o <<"|">> \o banos \o <<"|">>
          \o optStr(q.price_min) \o <<"|">> \o optStr(q.price_max) \o <<"|">>
          \o strip(q.palabras_clave)

\* main.py:247-254 (_stats_key); `x or ""` of a string is the string
_stats_key(q) ==
    LET zona == lower(strip(q.zona))
        dormitorios == IF q.dormitorios = <<>> THEN <<"0">> ELSE q.dormitorios
        banos == IF q.banos = <<>> THEN <<"0">> ELSE q.banos
        pmin == optStr(q.price_min)
        pmax == optStr(q.price_max)
        palabras == lower(strip(q.palabras_clave))
    IN  zona \o <<"|">> \o dormitorios \o <<"|">> \o banos \o <<"|">>
          \o pmin \o <<"|">> \o pmax \o <<"|">> \o palabras

\* SEARCH_STATS.get(key, 0)
statsGet(stats, key) ==
    IF \E i \in 1..Len(stats) : stats[i].key = key
    THEN stats[CHOOSE i \in 1..Len(stats) : stats[i].key = key].count
    ELSE 0

\* SEARCH_STATS[key] = value: an existing key keeps its place, a new one is
\* appended (dict insertion order)
statsPut(stats, key, value) ==
    IF \E i \in 1..Len(stats) : stats[i].key = key
    THEN [i \in 1..Len(stats) |->
             IF stats[i].key = key THEN [key |-> key, count |-> value]
             ELSE stats[i]]
    ELSE Append(stats, [key |-> key, count |-> value])

record_search_set1(stats, q) == statsPut(stats, _stats_key(q), 1)

\* main.py:256-259, as one step (the lock is held for the read and the write)
record_search(stats, q) ==
    LET key == _stats_key(q)
    IN  statsPut(stats, key, statsGet(stats, key) + 1)

---------------------------------------------------------------------------
(* src/main.py: the search request.                                        *)

MaxResults == 3       \* longest list the scraper returns
MaxSearches == 2      \* search requests in one behaviour
MaxPageIn == 3        \* largest requested page
MaxPageSizeIn == 2    \* largest requested page_size below the maximum

sNestoria  == <<"n","e","s","t","o","r","i","a">>
sInfocasas == <<"i","n","f","o","c","a","s","a","s">>
sUrbania   == <<"u","r","b","a","n","i","a">>
sProperati == <<"p","r","o","p","e","r","a","t","i">>
sDoomos    == <<"d","o","o","m","o","s">>
sCasa      == <<"c","a","s","a">>
sDepaPiscina == <<"d","e","p","a"," ","p","i","s","c","i","n","a">>
sLoftTerraza == <<"l","o","f","t"," ","t","e","r","r","a","z","a">>
sSoles1200 == <<"S","/"," ","1",",","2","0","0">>
sSoles900  == <<"S","/"," ","9","0","0">>
sSoles50   == <<"S","/"," ","5","0">>
sUsd900    == <<"$"," ","9","0","0">>
sSanIsidro == <<"s","a","n"," ","i","s","i","d","r","o">>
sSanIsidroCaps == <<"S","a","n"," ","I","s","i","d","r","o">>
sPiscina   == <<"p","i","s","c","i","n","a">>
sPiscinaCaps == <<"P","i","s","c","i","n","a"," ">>

\* The listings a scraper run may return.  Links are trimmed, as the
\* aggregator emits them (a.py:637).  Two listings share a link, two have no
\* link, two have equal scores.
Catalogue == <<
    Listing(sDepaPiscina, sSoles1200, <<>>, <<>>, <<"u","1">>, sNestoria),
    Listing(sCasa, sSoles900, <<>>, <<>>, <<"u","1">>, sUrbania),
    Listing(sCasa, sUsd900, <<"8","0"," ","m","2">>, <<>>, <<>>, sDoomos),
    Listing(sCasa, sSoles900, <<>>, <<>>, <<"u","2">>, sInfocasas),
    Listing(sLoftTerraza, sSoles50, <<>>, <<>>, <<>>, sProperati) >>

\* every list of at most n catalogue listings
ListsUpTo(n) ==
    UNION {[1..k -> {Catalogue[i] : i \in 1..Len(Catalogue)}] : k \in 0..n}

\* what run_scrapers does: returns a list, a frame (to_dict gives its rows),
\* None or something else, or raises
ScraperOutcomes(n) ==
    {[kind |-> k, rows |-> r] : k \in {"list", "frame"}, r \in ListsUpTo(n)}
      \cup {[kind |-> k, rows |-> <<>>] : k \in {"none", "other", "raise"}}

PageInputs == {None, Some(-1)} \cup {Some(p) : p \in 0..MaxPageIn}
PageSizeInputs ==
    {None, Some(-1), Some(MAX_PAGE_SIZE + 1)} \cup {Some(p) : p \in 0..MaxPageSizeIn}

PlainQueryOf(zona) == Query(zona, <<"0">>, <<"0">>, None, None, <<>>)
PlainQuery == Query(sSanIsidro, <<"0">>, <<"0">>, None, None, <<>>)

\* main.py:155-181
run_search(outcome) ==
    IF outcome.kind \in {"list", "frame"} THEN outcome.rows ELSE <<>>

NoResponse ==
    [success |-> FALSE, count |-> 0, properties |-> <<>>,
     meta |-> [page |-> 0, page_size |-> 0, total |-> 0, total_pages |-> 0,
               has_prev |-> FALSE, has_next |-> FALSE],
     message |-> "no response"]
NoRequest ==
    [q |-> PlainQuery, page |-> None, page_size |-> None, kind |-> "no request",
     rows |-> <<>>]

\* the listings paginated whether there are any or not
searchResponse_noempty(props, page, page_size) ==
    LET marked == mark_featured_one(dedupe_by_link(props))
        pg == paginate(marked, page, page_size)
    IN  [success |-> TRUE, count |-> Len(pg.slice), properties |-> pg.slice,
         meta |-> pg.meta, message |-> "found"]

\* main.py:326-333: the response built from the scraper's listings
searchResponse(props, page, page_size) ==
    IF props = <<>>
    THEN [success |-> TRUE, count |-> 0, properties |-> <<>>,
          meta |-> [page |-> 1, page_size |-> page_size, total |-> 0,
                    total_pages |-> 1, has_prev |-> FALSE, has_next |-> FALSE],
          message |-> "none found"]
    ELSE LET marked == mark_featured_one(dedupe_by_link(props))
             pg == paginate(marked, page, page_size)
         IN  [success |-> TRUE, count |-> Len(pg.slice), properties |-> pg.slice,
              meta |-> pg.meta, message |-> "found"]

TotalSearches(stats) ==
    LET RECURSIVE sum(_)
        sum(i) == IF i = 0 THEN 0 ELSE stats[i].count + sum(i - 1)
    IN  sum(Len(stats))

\* main.py:318-333 (_search_logic), one request from arrival to the response
SearchLogic(q, page, page_size, outcome) ==
    /\ SEARCH_STATS' = record_search(SEARCH_STATS, q)
    /\ response' = searchResponse(run_search(outcome), clamp_page(page),
                                  clamp_page_size(page_size))
    /\ lastReq' = [q |-> q, page |-> page, page_size |-> page_size,
                   kind |-> outcome.kind, rows |-> outcome.rows]

\* the response is sent and the handler returns (main.py:342, 367)
Deliver ==
    /\ response # NoResponse
    /\ response' = NoResponse
    /\ lastReq' = NoRequest
    /\ UNCHANGED SEARCH_STATS

---------------------------------------------------------------------------
(* paginate called on its own (main.py:134-150).                           *)

MaxItems == 45        \* longest list paginated
MaxPageRequest == 10  \* largest page requested of paginate

PgIdle == [items |-> <<>>, page |-> 0, page_size |-> 0]
PgNoResult == [slice |-> <<>>,
               meta |-> [page |-> 0, page_size |-> 0, total |-> 0, total_pages |-> 0,
                         has_prev |-> FALSE, has_next |-> FALSE]]

\* a list of n distinct items
ItemList(n) == [i \in 1..n |-> i]

PaginateCall ==
    /\ pgIn = PgIdle
    /\ \E n \in 0..MaxItems, page \in 1..MaxPageRequest, page_size \in 1..MAX_PAGE_SIZE :
          /\ pgIn' = [items |-> ItemList(n), page |-> page, page_size |-> page_size]
          /\ pgOut' = paginate(ItemList(n), page, page_size)
    /\ UNCHANGED <<searchVars, fVars, featVars, authVars, adVars, combineVars, thVars, homeVars, callVars>>

PaginateReturn ==
    /\ pgIn # PgIdle
    /\ pgIn' = PgIdle
    /\ pgOut' = PgNoResult
    /\ UNCHANGED <<searchVars, fVars, featVars, authVars, adVars, combineVars, thVars, homeVars, callVars>>

---------------------------------------------------------------------------
(* src/a.py: price parsing and the strict filter.                          *)

\* a frame row; imagen_url is carried by the code and read by none of the
\* modelled operations
Row(titulo, precio, dormitorios, banos, descripcion, link) ==
    [titulo |-> titulo, precio |-> precio, m2 |-> <<>>, dormitorios |-> dormitorios,
     banos |-> banos, descripcion |-> descripcion, link |-> link,
     fuente |-> <<>>, is_featured |-> FALSE]

parse_precio_anymoneda(precio_str) ==
    LET nums == onlyDigits(precio_str)
    IN  IF precio_str = <<>> THEN [moneda |-> "None", val |-> None]
        ELSE [moneda |-> "S", val |-> IF nums # <<>> THEN Some(toInt(nums)) ELSE None]

\* a.py:59-69
parse_precio_con_moneda(precio_str) ==
    LET s == precio_str
        moneda == IF contains(<<"S","/">>, s) \/ startswith(strip(s), <<"S","/">>)
                  THEN "S"
                  ELSE IF contains(<<"$">>, s) THEN "USD" ELSE "None"
        nums == onlyDigits(s)
    IN  IF precio_str = <<>> THEN [moneda |-> "None", val |-> None]
        ELSE [moneda |-> moneda,
              val |-> IF nums # <<>> THEN Some(toInt(nums)) ELSE None]

\* a.py:83-85
_parse_price_soles(s) ==
    LET r == parse_precio_con_moneda(s)
    IN  IF r.moneda = "S" THEN r.val ELSE None

\* a.py:71-75
_extract_int_from_text(s) ==
    LET run == firstDigitRun(s, Len(s))
    IN  IF run = <<>> THEN None ELSE Some(toInt(run))

\* int(x) of a string succeeds: optional sign, digits, surrounding whitespace
intParses(x) ==
    LET t == strip(x)
        body == IF t # <<>> /\ t[1] \in {"+", "-"} THEN Tail(t) ELSE t
    IN  body # <<>> /\ \A i \in 1..Len(body) : IsDigit(body[i])
intOf(x) ==
    LET t == strip(x)
    IN  IF t[1] = "-" THEN 0 - toInt(Tail(t))
        ELSE IF t[1] = "+" THEN toInt(Tail(t)) ELSE toInt(t)

\* the sentinel "0" taken as a count to match
countRequested_zero(req) == strip(req) # <<>>

\* a.py:565, 571: the constraint is requested; a requested value that int()
\* rejects raises inside the try and leaves the mask as it was (a.py:568-569)
countRequested(req) == strip(req) # <<>> /\ req # <<"0">>
countKeeps(req, field) ==
    (countRequested(req) /\ intParses(req))
        => LET n == _extract_int_from_text(field)
           IN  n # None /\ n[1] = intOf(req)

\* a.py:576-582; an absent side is the bound -10**12 or 10**12, which no
\* parsed amount of the model reaches
priceKeeps(price_min, price_max, precio) ==
    (price_min # None \/ price_max # None)
        => LET v == _parse_price_soles(precio)
           IN  /\ v # None
               /\ (price_min = None \/ v[1] >= price_min[1])
               /\ (price_max = None \/ v[1] <= price_max[1])

\* a.py:555-585
_filter_df_strict(df, dormitorios_req, banos_req, price_min, price_max) ==
    IF df = <<>> THEN <<>>
    ELSE SelectSeq(df, LAMBDA r :
            /\ countKeeps(dormitorios_req, r.dormitorios)
            /\ countKeeps(banos_req, r.banos)
            /\ priceKeeps(price_min, price_max, r.precio))

MaxRows == 2          \* longest frame given to the strict filter

sSoles1500 == <<"S","/"," ","1",",","5","0","0">>
sSolesBare == <<"S","/">>

\* rows of the frames given to the strict filter
FilterRows == {
    Row(sCasa, sSoles1200, <<>>, <<>>, <<>>, <<"u","1">>),
    Row(sCasa, sUsd900, <<>>, <<>>, <<>>, <<"u","2">>),
    Row(sCasa, sSoles50, <<"2">>, <<"1">>, <<>>, <<"u","3">>),
    Row(sCasa, <<>>, <<>>, <<>>, <<>>, <<"u","4">>),
    Row(sCasa, sSoles1500, <<"3"," ","d","o","r","m">>, <<"2">>, <<>>, <<"u","5">>),
    Row(sCasa, sSolesBare, <<>>, <<>>, <<>>, <<"u","6">>) }

FilterFrames == UNION {[1..k -> FilterRows] : k \in 0..MaxRows}
FilterCounts == {<<"0">>, <<"2">>, <<>>, <<" ">>, <<"2", "+">>}
FilterMins == {None, Some(0), Some(500)}
FilterMaxs == {None, Some(1200), Some(1500)}

FIdle == [active |-> FALSE, df |-> <<>>, dormitorios |-> <<"0">>, banos |-> <<"0">>,
          price_min |-> None, price_max |-> None]

FilterCall ==
    /\ ~fIn.active
    /\ \E df \in FilterFrames, d \in FilterCounts, b \in FilterCounts,
          lo \in FilterMins, hi \in FilterMaxs :
          /\ fIn' = [active |-> TRUE, df |-> df, dormitorios |-> d, banos |-> b,
                     price_min |-> lo, price_max |-> hi]
          /\ fOut' = _filter_df_strict(df, d, b, lo, hi)
    /\ UNCHANGED <<searchVars, pgVars, adVars, combineVars, thVars, homeVars, callVars,
                   featVars, authVars>>

FilterReturn ==
    /\ fIn.active
    /\ fIn' = FIdle
    /\ fOut' = <<>>
    /\ UNCHANGED <<searchVars, pgVars, adVars, combineVars, thVars, homeVars, callVars,
                   featVars, authVars>>

---------------------------------------------------------------------------
(* src/a.py: one call of a source adapter, step by step.  Every call to    *)
(* the network or to the browser either succeeds or raises.                *)

MaxCalls == 2         \* adapter calls in one behaviour
MaxCards == 2         \* most listings one page yields

INFOCASAS_MAX_SCROLLS == 8
URBANIA_MAX_PAGES == 6
URBANIA_MAX_SCROLLS == 8

NESTORIA_DISTRICTS == <<
    <<"c","o","m","a","s">>,
    <<"m","i","r","a","f","l","o","r","e","s">>,
    <<"s","a","n","_","i","s","i","d","r","o">>,
    <<"b","a","r","r","a","n","c","o">>,
    <<"s","a","n","_","m","i","g","u","e","l">>,
    <<"s","u","r","c","o">>,
    <<"s","a","n","t","i","a","g","o","-","d","e","-","s","u","r","c","o">>,
    <<"j","e","s","u","s","-","m","a","r","i","a">>,
    <<"l","a","-","m","o","l","i","n","a">>,
    <<"s","a","n","-","b","o","r","j","a">>,
    <<"p","u","e","b","l","o","-","l","i","b","r","e">>,
    <<"r","i","m","a","c">>,
    <<"l","a","-","v","i","c","t","o","r","i","a">>,
    <<"m","a","g","d","a","l","e","n","a","-","d","e","l","-","m","a","r">>,
    <<"l","o","s","-","o","l","i","v","o","s">>,
    <<"s","a","n","-","j","u","a","n","-","d","e","-","l","u","r","i","g","a","n","c","h","o">>,
    <<"s","a","n","-","j","u","a","n","-","d","e","-","m","i","r","a","f","l","o","r","e","s">>,
    <<"c","a","l","l","a","o">>,
    <<"v","e","n","t","a","n","i","l","l","a">>,
    <<"c","h","o","r","r","i","l","l","o","s">>,
    <<"p","u","e","n","t","e","-","p","i","e","d","r","a">>,
    <<"l","i","n","c","e">>,
    <<"s","a","n","-","l","u","i","s">> >>

BrowserAdapters == {"infocasas", "urbania"}
SingleFetchAdapters == {"properati", "doomos"}
AdapterNames == {"nestoria"} \cup BrowserAdapters \cup SingleFetchAdapters

\* the call in progress:
\*   pc       where the call is
\*   driver   the session create_driver returned (0: none)
\*   results  number of records gathered so far, then returned
\*   fault    the failure the call met ("none": none)
\*   outcome  "returned" or "raised" once the call is over
\*   new      records the current urbania iteration added (a.py:390, 418)
\*   tried    the current urbania iteration went into the advance block
\*   clicked  a next control was clicked in it (a.py:427-437)
\*   how      what advanced the page in it: "click", "url" or "none"
AdIdle ==
    [name |-> "none", pc |-> "idle", zona |-> FALSE, kw |-> FALSE, driver |-> 0,
     results |-> 0, page_count |-> 0, scrolls |-> 0, target |-> 0, targets |-> 0,
     anyOk |-> FALSE, anyBad |-> FALSE, fault |-> "none", outcome |-> "none",
     new |-> 0, tried |-> FALSE, clicked |-> FALSE, how |-> "none"]

\* an exception escapes the body of the adapter's try and skips the finally
raisedInTry_nofinally(a, fault) ==
    [a EXCEPT !.pc = "done", !.fault = fault, !.outcome = "returned",
              !.results = IF a.name = "urbania" THEN 0 ELSE a.results]

\* a.py:308-310, 463-465: an exception inside the try of a browser adapter.
\* scrape_infocasas passes and returns the results gathered so far;
\* scrape_urbania returns an empty frame.  Both go through the finally.
raisedInTry(a, fault) ==
    [a EXCEPT !.pc = "finally", !.fault = fault,
              !.results = IF a.name = "urbania" THEN 0 ELSE a.results]

\* the caller invokes an adapter (a.py:614)
AdapterBegin ==
    /\ ad.pc = "idle"
    /\ calls < MaxCalls
    /\ \E name \in AdapterNames, zona \in BOOLEAN, kw \in BOOLEAN :
          /\ (name # "nestoria" => (zona /\ ~kw))
          /\ ad' = [AdIdle EXCEPT !.name = name, !.pc = "start",
                                  !.zona = zona, !.kw = kw]
    /\ UNCHANGED <<sessions, calls>>
    /\ UNCHANGED notAdVars

\* a.py:273, 347 (create_driver, a.py:29-47): outside the try.  A launch
\* failure leaves the adapter as an exception.
CreateDriver ==
    /\ ad.pc = "start" /\ ad.name \in BrowserAdapters
    /\ \/ /\ sessions' = Append(sessions, "open")
          /\ ad' = [ad EXCEPT !.pc = "get", !.driver = Len(sessions) + 1]
       \/ /\ ad' = [ad EXCEPT !.pc = "done", !.fault = "launch", !.outcome = "raised"]
          /\ UNCHANGED sessions
    /\ UNCHANGED notAdVars
    /\ UNCHANGED calls
    /\ UNCHANGED notAdVars

\* a.py:276, 351: driver.get
DriverGet ==
    /\ ad.pc = "get"
    /\ \/ ad' = [ad EXCEPT !.pc = IF ad.name = "urbania" THEN "wait" ELSE "scroll",
                           !.anyOk = TRUE]
       \/ ad' = raisedInTry(ad, "network")
    /\ UNCHANGED <<sessions, calls>>
    /\ UNCHANGED notAdVars

\* a.py:353-358: the wait ends with the element present or with a timeout,
\* which is swallowed
UrbaniaWait ==
    /\ ad.pc = "wait"
    /\ ad' = [ad EXCEPT !.pc = "loop"]
    /\ UNCHANGED <<sessions, calls>>
    /\ UNCHANGED notAdVars

\* a.py:278-280
InfocasasScroll ==
    /\ ad.pc = "scroll"
    /\ \/ /\ ad.scrolls < INFOCASAS_MAX_SCROLLS
          /\ ad' = [ad EXCEPT !.scrolls = @ + 1]
       \/ /\ ad.scrolls < INFOCASAS_MAX_SCROLLS
          /\ ad' = raisedInTry(ad, "script")
       \/ /\ ad.scrolls = INFOCASAS_MAX_SCROLLS
          /\ ad' = [ad EXCEPT !.pc = "extract"]
    /\ UNCHANGED <<sessions, calls>>
    /\ UNCHANGED notAdVars

\* a.py:281-307: the page is read and its nodes extracted (a node that fails
\* is skipped)
InfocasasExtract ==
    /\ ad.pc = "extract"
    /\ \/ \E k \in 0..MaxCards :
             ad' = [ad EXCEPT !.pc = "finally", !.results = k,
                              !.fault = IF k = 0 THEN "nomatch" ELSE "none"]
       \/ ad' = raisedInTry(ad, "script")
    /\ UNCHANGED <<sessions, calls>>
    /\ UNCHANGED notAdVars

\* a.py:361-362, 462
UrbaniaLoop ==
    /\ ad.pc = "loop"
    /\ \/ /\ ad.page_count < URBANIA_MAX_PAGES
          /\ ad' = [ad EXCEPT !.page_count = @ + 1, !.scrolls = 0, !.pc = "uscroll",
                              !.new = 0, !.tried = FALSE, !.clicked = FALSE,
                              !.how = "none"]
       \/ /\ ad.page_count >= URBANIA_MAX_PAGES
          /\ ad' = [ad EXCEPT !.pc = "finally",
                              !.fault = IF ad.results = 0 THEN "nomatch" ELSE "none"]
    /\ UNCHANGED <<sessions, calls>>
    /\ UNCHANGED notAdVars

\* a.py:363-370: at most 8 scrolls, ended early when the height stays
UrbaniaScroll ==
    /\ ad.pc = "uscroll"
    /\ \/ /\ ad.scrolls < URBANIA_MAX_SCROLLS
          /\ ad' = [ad EXCEPT !.scrolls = @ + 1]
       \/ /\ ad.scrolls < URBANIA_MAX_SCROLLS
          /\ ad' = [ad EXCEPT !.scrolls = @ + 1, !.pc = "uextract"]
       \/ /\ ad.scrolls < URBANIA_MAX_SCROLLS
          /\ ad' = raisedInTry(ad, "script")
       \/ /\ ad.scrolls = URBANIA_MAX_SCROLLS
          /\ ad' = [ad EXCEPT !.pc = "uextract"]
    /\ UNCHANGED <<sessions, calls>>
    /\ UNCHANGED notAdVars

\* a.py:371-417: k new records; with none the adapter tries to advance
UrbaniaExtract ==
    /\ ad.pc = "uextract"
    /\ \/ \E k \in 0..MaxCards :
             ad' = [ad EXCEPT !.results = @ + k, !.new = k,
                              !.pc = IF k = 0 THEN "advance" ELSE "loop"]
       \/ ad' = raisedInTry(ad, "script")
    /\ UNCHANGED <<sessions, calls>>
    /\ UNCHANGED notAdVars

\* a.py:418-460, entered when the iteration added no record: the first
\* displayed next control whose click goes through (a failure of the lookup
\* or of every click counts as no click); with no click, the page=N of the
\* current URL rewritten to N+1 and loaded (reading current_url is outside
\* any inner try); with neither, break
UrbaniaAdvance ==
    /\ ad.pc = "advance"
    /\ \/ ad' = [ad EXCEPT !.pc = "loop", !.tried = TRUE, !.clicked = TRUE,
                           !.how = "click"]
       \/ \E hasPage \in BOOLEAN, loaded \in BOOLEAN :
             ad' = [ad EXCEPT !.tried = TRUE, !.clicked = FALSE,
                              !.how = IF hasPage /\ loaded THEN "url" ELSE "none",
                              !.pc = IF hasPage /\ loaded THEN "loop" ELSE "finally",
                              !.fault = IF hasPage /\ loaded THEN @
                                        ELSE IF ad.results = 0 THEN "nomatch"
                                        ELSE "none"]
       \/ ad' = [raisedInTry(ad, "script") EXCEPT !.tried = TRUE]
    /\ UNCHANGED <<sessions, calls>>
    /\ UNCHANGED notAdVars

\* a.py:310-315, 465-469: the finally; a failure of quit is swallowed
QuitDriver ==
    /\ ad.pc = "finally"
    /\ \E st \in {"quit", "quit_failed"} :
          sessions' = [sessions EXCEPT ![ad.driver] = st]
    /\ ad' = [ad EXCEPT !.pc = "done", !.outcome = "returned"]
    /\ UNCHANGED calls
    /\ UNCHANGED notAdVars

\* a.py:482-505, 521-544: one request; a network error or a status other
\* than 200 returns an empty frame
SingleFetch ==
    /\ ad.pc = "start" /\ ad.name \in SingleFetchAdapters
    /\ \/ \E k \in 0..MaxCards :
             ad' = [ad EXCEPT !.pc = "done", !.outcome = "returned", !.results = k,
                              !.anyOk = TRUE,
                              !.fault = IF k = 0 THEN "nomatch" ELSE "none"]
       \/ \E fault \in {"network", "non200"} :
             ad' = [ad EXCEPT !.pc = "done", !.outcome = "returned", !.results = 0,
                              !.anyBad = TRUE, !.fault = fault]
    /\ UNCHANGED <<sessions, calls>>
    /\ UNCHANGED notAdVars

\* a.py:223-241: one request for the zone, one per district, or one to the
\* general path
NestoriaStart ==
    /\ ad.pc = "start" /\ ad.name = "nestoria"
    /\ ad' = [ad EXCEPT !.pc = "nfetch", !.target = 1,
                        !.targets = IF ~ad.zona /\ ad.kw
                                    THEN Len(NESTORIA_DISTRICTS) ELSE 1]
    /\ UNCHANGED <<sessions, calls>>
    /\ UNCHANGED notAdVars

\* a.py:213-221, 253-259: a request that fails contributes nothing and the
\* loop goes on
NestoriaFetch ==
    /\ ad.pc = "nfetch"
    /\ \/ /\ ad.target <= ad.targets
          /\ \E k \in 0..MaxCards :
                ad' = [ad EXCEPT !.target = @ + 1, !.results = @ + k, !.anyOk = TRUE]
       \/ /\ ad.target <= ad.targets
          /\ ad' = [ad EXCEPT !.target = @ + 1, !.anyBad = TRUE]
       \/ /\ ad.target > ad.targets
          /\ ad' = [ad EXCEPT !.pc = "done", !.outcome = "returned",
                              !.fault = IF ~ad.anyOk THEN "network"
                                        ELSE IF ad.results = 0 THEN "nomatch"
                                        ELSE "none"]
    /\ UNCHANGED <<sessions, calls>>
    /\ UNCHANGED notAdVars

\* the call is over
AdapterEnd ==
    /\ ad.pc = "done"
    /\ ad' = AdIdle
    /\ calls' = calls + 1
    /\ UNCHANGED sessions
    /\ UNCHANGED notAdVars

---------------------------------------------------------------------------
(* src/a.py: run_and_combine_all, one adapter per step.                    *)

SCRAPERS == <<sNestoria, sInfocasas, sUrbania, sProperati, sDoomos>>

sNoneText == <<"N","o","n","e">>

\* a.py:635-637: every column as text, stripped, "None" emptied
normCell(v) == LET t == strip(v) IN IF t = sNoneText THEN <<>> ELSE t
normRow(r) ==
    [r EXCEPT !.titulo = normCell(@), !.precio = normCell(@), !.m2 = normCell(@),
              !.dormitorios = normCell(@), !.banos = normCell(@),
              !.descripcion = normCell(@), !.link = normCell(@)]
RECURSIVE normFrame(_)
normFrame(df) ==
    IF df = <<>> THEN <<>> ELSE <<normRow(Head(df))>> \o normFrame(Tail(df))

\* a.py:591-597
texto_completo(r) ==
    lower(r.titulo \o <<" ">> \o r.descripcion \o <<" ">> \o r.m2 \o <<" ">>
            \o r.dormitorios \o <<" ">> \o r.banos)

\* a row is kept when its text holds one of the keywords
_filter_by_keywords_any(df, palabras_clave) ==
    IF df = <<>> \/ strip(palabras_clave) = <<>> THEN df
    ELSE LET palabras == split(lower(palabras_clave))
         IN  SelectSeq(df, LAMBDA r :
                 \E i \in 1..Len(palabras) : contains(palabras[i], texto_completo(r)))

\* a.py:587-602: a row is kept when its text holds every keyword
_filter_by_keywords(df, palabras_clave) ==
    IF df = <<>> \/ strip(palabras_clave) = <<>> THEN df
    ELSE LET palabras == split(lower(palabras_clave))
         IN  SelectSeq(df, LAMBDA r :
                 \A i \in 1..Len(palabras) : contains(palabras[i], texto_completo(r)))

\* a.py:181-193: kw_param is set
nestoriaKwParamSent(palabras_clave) ==
    palabras_clave # <<>> /\ strip(palabras_clave) # <<>>

\* the adapter puts the keywords in its request: keywords_features (a.py:183-193),
\* searchstring (a.py:270-271), keyword (a.py:324-325, 339-340; a.py:480-481),
\* key (a.py:513-514)
sendsKeywords(name, palabras_clave) ==
    CASE name = sNestoria  -> nestoriaKwParamSent(palabras_clave)
      [] name = sInfocasas -> palabras_clave # <<>> /\ strip(palabras_clave) # <<>>
      [] name = sUrbania   -> palabras_clave # <<>> /\ strip(palabras_clave) # <<>>
      [] name = sProperati -> palabras_clave # <<>> /\ strip(palabras_clave) # <<>>
      [] name = sDoomos    -> palabras_clave # <<>> /\ strip(palabras_clave) # <<>>

\* a.py:645
keywordsApply(name, palabras_clave) ==
    strip(palabras_clave) # <<>> /\ name \notin {sUrbania, sDoomos}

RECURSIVE tagFrame(_, _)
tagFrame(df, name) ==
    IF df = <<>> THEN <<>>
    ELSE <<[Head(df) EXCEPT !.fuente = name]>> \o tagFrame(Tail(df), name)

\* a.py:625-653: what one adapter's frame contributes
contribution(name, df, q) ==
    LET strict == _filter_df_strict(normFrame(df), q.dormitorios, q.banos,
                                    q.price_min, q.price_max)
        kept == IF keywordsApply(name, q.palabras_clave)
                THEN _filter_by_keywords(strict, q.palabras_clave) ELSE strict
    IN  tagFrame(kept, name)

\* a.py:659: drop_duplicates(subset=["link","titulo"], keep="first")
RECURSIVE dropScan(_, _)
dropScan(df, seen) ==
    IF df = <<>> THEN <<>>
    ELSE LET k == <<Head(df).link, Head(df).titulo>>
         IN  IF k \in seen THEN dropScan(Tail(df), seen)
             ELSE <<Head(df)>> \o dropScan(Tail(df), seen \cup {k})
drop_duplicates(df) == dropScan(df, {})

RECURSIVE concat(_)
concat(frames) ==
    IF frames = <<>> THEN <<>> ELSE Head(frames) \o concat(Tail(frames))

\* what one adapter does when called: the keyword call returns a frame, returns
\* None, raises TypeError or raises another exception; the positional call
\* returns a frame or raises
Returned(df) == [kw |-> "frame", pos |-> "unused", df |-> df]
ReturnedNone == [kw |-> "none", pos |-> "unused", df |-> <<>>]
Raised == [kw |-> "raise", pos |-> "unused", df |-> <<>>]
TypeErrorThen(df) == [kw |-> "TypeError", pos |-> "frame", df |-> df]
TypeErrorTwice == [kw |-> "TypeError", pos |-> "raise", df |-> <<>>]

\* the loop body with no handler for what the adapter raises
callAdapter_unhandled(o) ==
    IF o.kw \in {"frame", "none"}
    THEN [raised |-> FALSE, df |-> o.df, calls |-> <<"kw">>]
    ELSE [raised |-> TRUE, df |-> <<>>, calls |-> <<"kw">>]

\* a.py:613-626: the keyword call, the positional fallback after a TypeError,
\* an empty frame for what raises and for what is not a frame
callAdapter(o) ==
    IF o.kw \in {"frame", "none"}
    THEN [raised |-> FALSE, df |-> o.df, calls |-> <<"kw">>]
    ELSE IF o.kw = "TypeError"
    THEN [raised |-> FALSE, df |-> IF o.pos = "frame" THEN o.df ELSE <<>>,
          calls |-> <<"kw", "positional">>]
    ELSE [raised |-> FALSE, df |-> <<>>, calls |-> <<"kw">>]

\* a record that carries a bedroom and a bathroom count
scrapedRow_counted(titulo, precio, descripcion, link) ==
    Row(titulo, precio, <<"2">>, <<"1">>, descripcion, link)

\* a.py:154-163, 301-305, 410-415, 499-501, 538-540: the record an adapter
\* appends; "dormitorios" and the bathroom field are the empty string
scrapedRow(titulo, precio, descripcion, link) ==
    Row(titulo, precio, <<>>, <<>>, descripcion, link)

rowPiscina == scrapedRow(sDepaPiscina, sSoles1200, <<>>, <<"u","1">>)
rowCasa == scrapedRow(sCasa, <<" ">> \o sSoles900, sNoneText, <<"u","2"," ">>)

rowCasaSinLink == scrapedRow(sCasa, sSoles900, <<>>, <<>>)
rowCasaU1 == scrapedRow(sCasa, sSoles900, <<>>, <<"u","1">>)

CombineOutcomes ==
    { Returned(<<>>), Returned(<<rowPiscina>>), Returned(<<rowPiscina, rowCasa>>),
      Returned(<<rowCasaSinLink, rowCasaU1>>),
      ReturnedNone, Raised, TypeErrorThen(<<rowCasa>>), TypeErrorTwice }

CombineQueries ==
    { Query(<<>>, <<"0">>, <<"0">>, None, None, <<>>),
      Query(<<>>, <<"0">>, <<"0">>, None, None, sPiscinaCaps),
      Query(<<>>, <<"0">>, <<"0">>, None, Some(1000), <<>>),
      Query(<<>>, <<"2">>, <<"0">>, None, None, <<>>),
      Query(<<>>, <<"0">>, <<"1">>, None, None, sPiscinaCaps) }

\* the run in progress:
\*   idx      position in SCRAPERS of the next adapter
\*   frames   the frames appended so far (a.py:650-653)
\*   invoked  the calls made, in order
\*   outs     what each adapter did
\*   result   the frame returned; saved: it was written to the CSV file
CombineIdle ==
    [pc |-> "idle", q |-> Query(<<>>, <<"0">>, <<"0">>, None, None, <<>>), idx |-> 0,
     frames |-> <<>>, invoked |-> <<>>, outs |-> <<>>, crashed |-> FALSE,
     result |-> <<>>, saved |-> FALSE]

\* a.py:604-610
CombineBegin ==
    /\ combine.pc = "idle"
    /\ \E q \in CombineQueries :
          combine' = [CombineIdle EXCEPT !.pc = "loop", !.q = q, !.idx = 1]
    /\ UNCHANGED <<searchVars, pgVars, fVars, featVars, authVars, adVars, thVars, homeVars, callVars>>

\* a.py:611-653: one iteration of the loop over SCRAPERS
CombineStep ==
    /\ combine.pc = "loop"
    /\ combine.idx <= Len(SCRAPERS)
    /\ \E o \in CombineOutcomes :
          LET name == SCRAPERS[combine.idx]
              c == callAdapter(o)
              df_filtered == contribution(name, c.df, combine.q)
              log == [i \in 1..Len(c.calls) |-> <<name, c.calls[i]>>]
          IN  combine' =
                IF c.raised
                THEN [combine EXCEPT !.pc = "done", !.crashed = TRUE,
                                     !.invoked = @ \o log, !.outs = Append(@, o)]
                ELSE [combine EXCEPT !.idx = @ + 1,
                                     !.invoked = @ \o log, !.outs = Append(@, o),
                                     !.frames = IF Len(df_filtered) > 0
                                                THEN Append(@, df_filtered) ELSE @]
    /\ UNCHANGED <<searchVars, pgVars, fVars, featVars, authVars, adVars, thVars, homeVars, callVars>>

\* a.py:654-670: nothing kept: an empty frame; else the frames concatenated,
\* duplicates dropped, the result displayed and saved
CombineFinish ==
    /\ combine.pc = "loop"
    /\ combine.idx > Len(SCRAPERS)
    /\ LET combined == drop_duplicates(concat(combine.frames))
       IN  combine' =
             IF combine.frames = <<>>
             THEN [combine EXCEPT !.pc = "done", !.result = <<>>]
             ELSE [combine EXCEPT !.pc = "done", !.result = combined, !.saved = TRUE]
    /\ UNCHANGED <<searchVars, pgVars, fVars, featVars, authVars, adVars, thVars, homeVars, callVars>>

\* the run is over
CombineReturn ==
    /\ combine.pc = "done"
    /\ combine' = CombineIdle
    /\ UNCHANGED <<searchVars, pgVars, fVars, featVars, authVars, adVars, thVars, homeVars, callVars>>

---------------------------------------------------------------------------
(* src/main.py: record_search and the snapshot reads of trending and       *)
(* home_feed, run by concurrent handlers, one statement per step.          *)

MaxThreads == 2       \* handlers running at once
MaxOps == 4           \* operations started in one behaviour

Threads == 1..MaxThreads

\* sorted(SEARCH_STATS.items(), key=lambda kv: kv[1], reverse=True): stable,
\* keys of equal count stay in insertion order
RECURSIVE insertByCount(_, _)
insertByCount(kv, sorted) ==
    IF sorted = <<>> THEN <<kv>>
    ELSE IF Head(sorted).count >= kv.count
         THEN <<Head(sorted)>> \o insertByCount(kv, Tail(sorted))
         ELSE <<kv>> \o sorted
RECURSIVE sortedByCount(_)
sortedByCount(items) ==
    IF items = <<>> THEN <<>>
    ELSE insertByCount(items[Len(items)], sortedByCount(SubSeq(items, 1, Len(items) - 1)))

\* main.py:382 ([:limit]) and main.py:397 (whole list)
snapshotOf(items, op, limit) ==
    IF op = "trending" THEN pySlice(sortedByCount(items), 0, limit)
    ELSE sortedByCount(items)

ConcQueries ==
    { Query(sSanIsidro, <<"0">>, <<"0">>, None, None, <<>>),
      Query(sSanIsidroCaps, <<"0">>, <<"0">>, None, None, <<>>),
      Query(<<>>, <<"2">>, <<"0">>, None, Some(1200), sPiscinaCaps) }
ConcKeys == {_stats_key(q) : q \in ConcQueries}
TrendingLimits == {1, 6}

\* a handler:
\*   pc     the statement it is at
\*   op     "record_search", "trending" or "home_feed"
\*   value  the count record_search read
\*   i      how many items of SEARCH_STATS the bulk read has gone through
ThIdle ==
    [pc |-> "idle", op |-> "none", key |-> <<>>, value |-> 0, i |-> 0,
     items |-> <<>>, snap |-> <<>>, limit |-> 0]

\* thr: the handlers; completed: record_search calls over, by key;
\* started: operations started
ThInit ==
    [thr |-> [t \in Threads |-> ThIdle], completed |-> [k \in ConcKeys |-> 0],
     started |-> 0]

notStatsVars == <<response, lastReq, pgVars, fVars, featVars, authVars, adVars, combineVars, homeVars, callVars>>

\* record_search going on to its read without taking the lock
recordSearchEntry_nolock == "read"

\* main.py:258: `with STATS_LOCK:` comes first
recordSearchEntry == "acquire"

\* main.py:256-257
RecordSearchCall(t) ==
    /\ th.thr[t].pc = "idle"
    /\ th.started < MaxOps
    /\ \E q \in ConcQueries :
          th' = [th EXCEPT !.started = @ + 1,
                           !.thr[t] = [ThIdle EXCEPT !.pc = recordSearchEntry,
                                                     !.op = "record_search",
                                                     !.key = _stats_key(q)]]
    /\ UNCHANGED <<SEARCH_STATS, STATS_LOCK, notStatsVars>>

\* main.py:380, 391-395 (no cached home feed)
SnapshotCall(t) ==
    /\ th.thr[t].pc = "idle"
    /\ th.started < MaxOps
    /\ \/ \E limit \in TrendingLimits :
             th' = [th EXCEPT !.started = @ + 1,
                              !.thr[t] = [ThIdle EXCEPT !.pc = "acquire",
                                                        !.op = "trending",
                                                        !.limit = limit]]
       \/ th' = [th EXCEPT !.started = @ + 1,
                           !.thr[t] = [ThIdle EXCEPT !.pc = "acquire",
                                                     !.op = "home_feed"]]
    /\ UNCHANGED <<SEARCH_STATS, STATS_LOCK, notStatsVars>>

\* main.py:258, 381, 396: the lock is taken when it is free
AcquireLock(t) ==
    /\ th.thr[t].pc = "acquire"
    /\ STATS_LOCK = 0
    /\ STATS_LOCK' = t
    /\ th' = [th EXCEPT !.thr[t].pc =
                 IF th.thr[t].op = "record_search" THEN "read" ELSE "iterate"]
    /\ UNCHANGED <<SEARCH_STATS, notStatsVars>>

\* main.py:259: SEARCH_STATS.get(key, 0)
ReadCount(t) ==
    /\ th.thr[t].pc = "read"
    /\ th' = [th EXCEPT !.thr[t].value = statsGet(SEARCH_STATS, th.thr[t].key),
                        !.thr[t].pc = "write"]
    /\ UNCHANGED <<SEARCH_STATS, STATS_LOCK, notStatsVars>>

\* main.py:259: SEARCH_STATS[key] = ... + 1
WriteCount(t) ==
    /\ th.thr[t].pc = "write"
    /\ SEARCH_STATS' = statsPut(SEARCH_STATS, th.thr[t].key, th.thr[t].value + 1)
    /\ th' = [th EXCEPT !.thr[t].pc = "release"]
    /\ UNCHANGED <<STATS_LOCK, notStatsVars>>

\* main.py:382, 397: the items are gone through one by one, then sorted
IterateStats(t) ==
    /\ th.thr[t].pc = "iterate"
    /\ \/ /\ th.thr[t].i < Len(SEARCH_STATS)
          /\ th' = [th EXCEPT !.thr[t].i = @ + 1,
                              !.thr[t].items = Append(@, SEARCH_STATS[th.thr[t].i + 1])]
       \/ /\ th.thr[t].i >= Len(SEARCH_STATS)
          /\ th' = [th EXCEPT !.thr[t].pc = "release",
                              !.thr[t].snap = snapshotOf(th.thr[t].items, th.thr[t].op,
                                                         th.thr[t].limit)]
    /\ UNCHANGED <<SEARCH_STATS, STATS_LOCK, notStatsVars>>

\* the end of the with block; the operation is over
ReleaseLock(t) ==
    /\ th.thr[t].pc = "release"
    /\ STATS_LOCK' = 0
    /\ th' = [th EXCEPT !.thr[t] = ThIdle,
                        !.completed = IF th.thr[t].op = "record_search"
                                      THEN [@ EXCEPT ![th.thr[t].key] = @ + 1]
                                      ELSE @]
    /\ UNCHANGED <<SEARCH_STATS, notStatsVars>>

---------------------------------------------------------------------------
(* src/main.py: the stats key decoded, and the home-feed payload.          *)

HOME_CACHE_TTL == 15   \* minutes

\* s.split(sep) for a one-character separator
RECURSIVE splitOn(_, _)
splitOn(s, sep) ==
    LET at == {i \in 1..Len(s) : s[i] = sep}
    IN  IF at = {} THEN <<s>>
        ELSE <<SubSeq(s, 1, Min(at) - 1)>> \o splitOn(SubSeq(s, Min(at) + 1, Len(s)), sep)

\* int(s) succeeds: digits, with an optional sign (surrounding whitespace is
\* accepted by int)
isIntText(s) ==
    LET t == strip(s)
        d == IF t # <<>> /\ t[1] \in {"-", "+"} THEN Tail(t) ELSE t
    IN  d # <<>> /\ \A i \in 1..Len(d) : IsDigit(d[i])
pyInt(s) ==
    LET t == strip(s)
    IN  IF t[1] = "-" THEN 0 - toInt(Tail(t))
        ELSE IF t[1] = "+" THEN toInt(Tail(t)) ELSE toInt(t)

\* main.py:261-270: the unpacking raises unless the key has six parts, and
\* int() raises on a bound that is no number
parse_stats_key(key) ==
    LET parts == splitOn(key, "|")
    IN  IF Len(parts) # 6 THEN [raised |-> TRUE, q |-> PlainQueryOf(<<>>)]
        ELSE IF (parts[4] # <<>> /\ ~isIntText(parts[4]))
                \/ (parts[5] # <<>> /\ ~isIntText(parts[5]))
        THEN [raised |-> TRUE, q |-> PlainQueryOf(<<>>)]
        ELSE [raised |-> FALSE,
              q |-> Query(parts[1],
                          IF parts[2] # <<>> THEN parts[2] ELSE <<"0">>,
                          IF parts[3] # <<>> THEN parts[3] ELSE <<"0">>,
                          IF parts[4] # <<>> THEN Some(pyInt(parts[4])) ELSE None,
                          IF parts[5] # <<>> THEN Some(pyInt(parts[5])) ELSE None,
                          parts[6])]

\* str.title(): a letter that follows a letter is lowered, any other letter
\* is raised
RECURSIVE titleFrom(_, _)
titleFrom(s, afterLetter) ==
    IF s = <<>> THEN <<>>
    ELSE LET c == Head(s)
             letter == c \in UpperSet \cup LowerSet
         IN  <<IF afterLetter THEN lowerChar(c) ELSE upperChar(c)>>
                 \o titleFrom(Tail(s), letter)
title(s) == titleFrom(s, FALSE)

sMiraflores == <<"m","i","r","a","f","l","o","r","e","s">>
sSantiagoDeSurco ==
    <<"s","a","n","t","i","a","g","o"," ","d","e"," ","s","u","r","c","o">>

\* main.py:400-405
HomeFallbackQueries ==
    << PlainQueryOf(sMiraflores), PlainQueryOf(sSanIsidro),
       PlainQueryOf(sSantiagoDeSurco) >>

\* main.py:396-405: the three most searched keys decoded, else the fallback;
\* a key that does not decode makes the handler raise
homeBaseQueries(stats) ==
    LET top == pySlice(sortedByCount(stats), 0, 3)
        parsed == [i \in 1..Len(top) |-> parse_stats_key(top[i].key)]
    IN  IF \E i \in 1..Len(parsed) : parsed[i].raised
        THEN [raised |-> TRUE, queries |-> <<>>]
        ELSE IF parsed = <<>>
        THEN [raised |-> FALSE, queries |-> HomeFallbackQueries]
        ELSE [raised |-> FALSE, queries |-> [i \in 1..Len(parsed) |-> parsed[i].q]]

\* the dict objects of the i-th result list, each with its identity
RECURSIVE tagObjects(_, _, _)
tagObjects(items, i, j) ==
    IF j > Len(items) THEN <<>>
    ELSE <<items[j] @@ ("obj" :> <<i, j>>)>> \o tagObjects(items, i, j + 1)

asListing(p, featured) ==
    [titulo |-> p.titulo, precio |-> p.precio, m2 |-> p.m2,
     dormitorios |-> p.dormitorios, banos |-> p.banos,
     descripcion |-> p.descripcion, link |-> p.link, fuente |-> p.fuente,
     is_featured |-> featured]

\* the pool in the order it was gathered
sortedByScore_unsorted(scored) == scored

\* main.py:420: scored.sort(key=lambda t: t[0], reverse=True), stable
RECURSIVE insertByScore(_, _)
insertByScore(t, sorted) ==
    IF sorted = <<>> THEN <<t>>
    ELSE IF scoreGT(t[1], Head(sorted)[1])
         THEN <<t>> \o sorted
         ELSE <<Head(sorted)>> \o insertByScore(t, Tail(sorted))
RECURSIVE sortScan(_, _, _)
sortScan(scored, i, sorted) ==
    IF i > Len(scored) THEN sorted
    ELSE sortScan(scored, i + 1, insertByScore(scored[i], sorted))
sortedByScore(scored) == sortScan(scored, 1, <<>>)

\* main.py:409-415: the result lists, one per base query
RECURSIVE homeItems(_, _)
homeItems(outcomes, i) ==
    IF i > Len(outcomes) THEN <<>>
    ELSE <<tagObjects(run_search(outcomes[i]), i, 1)>> \o homeItems(outcomes, i + 1)

RECURSIVE homePool(_, _)
homePool(lists, i) ==
    IF i > Len(lists) THEN <<>>
    ELSE pySlice(lists[i], 0, 20) \o homePool(lists, i + 1)

RECURSIVE scoreAll(_, _)
scoreAll(pool, i) ==
    IF i > Len(pool) THEN <<>>
    ELSE <<<<score_property(pool[i]), pool[i]>>>> \o scoreAll(pool, i + 1)

\* main.py:407-430: sections, pool, featured and the payload.  The featured
\* flag is set on the dict objects, which the sections hold too.
homePayload(queries, outcomes, at) ==
    LET lists == homeItems(outcomes, 1)
        pool == dedupe_by_link(homePool(lists, 1))
        scored == sortedByScore(scoreAll(pool, 1))
        top == pySlice(scored, 0, 9)
        flagged == {top[k][2].obj : k \in 1..Len(top)}
        shown(p) == asListing(p, IF p.obj \in flagged THEN TRUE ELSE p.is_featured)
        subset(i) == pySlice(lists[i], 0, 6)
    IN  [featured |-> [k \in 1..Len(top) |-> shown(top[k][2])],
         sections |-> [i \in 1..Len(queries) |->
                          [title |-> title(queries[i].zona), query |-> queries[i],
                           count |-> Len(subset(i)),
                           properties |-> [j \in 1..Len(subset(i)) |-> shown(subset(i)[j])]]],
         generated_at |-> at,
         cached_ttl_minutes |-> HOME_CACHE_TTL]

---------------------------------------------------------------------------
(* The home-feed payload computed on its own, from result lists long       *)
(* enough to pass the cuts at 6, 9 and 20.                                 *)

MaxFeedLen == 21      \* longest result list of one base query

FeedSizes == {0, 7, MaxFeedLen}

\* the j-th listing of the i-th query: links of its own query or shared with
\* the other queries, every fifth listing without a link, cheaper as j grows
GenListing(i, j, shape) ==
    Listing(IF j = 3 THEN sDepaPiscina ELSE sCasa,
            <<"S","/"," ">> \o natToStr(100 * (30 - j)),
            <<>>, <<>>,
            IF j % 5 = 0 THEN <<>>
            ELSE IF shape = "own" THEN <<"q">> \o natToStr(i) \o <<"-">> \o natToStr(j)
            ELSE <<"s">> \o natToStr(j),
            SCRAPERS[i])
GenList(i, n, shape) == [j \in 1..n |-> GenListing(i, j, shape)]

FeedOutcomes(i) ==
    {[kind |-> "list", rows |-> GenList(i, n, shape)] :
         n \in FeedSizes, shape \in {"own", "shared"}}
      \cup {[kind |-> "raise", rows |-> <<>>]}

\* SEARCH_STATS after the searches qs
RECURSIVE StatsAfter(_)
StatsAfter(qs) ==
    IF qs = <<>> THEN <<>>
    ELSE record_search(StatsAfter(SubSeq(qs, 1, Len(qs) - 1)), qs[Len(qs)])

qPiscinaAnywhere == Query(<<>>, <<"2">>, <<"0">>, None, Some(1200), sPiscinaCaps)

FeedStats ==
    { <<>>,
      StatsAfter(<<PlainQueryOf(sSanIsidroCaps)>>),
      StatsAfter(<<PlainQueryOf(sMiraflores), qPiscinaAnywhere, qPiscinaAnywhere,
                   PlainQueryOf(sSanIsidro), PlainQueryOf(sSantiagoDeSurco)>>) }

HpIdle == [active |-> FALSE, outcomes |-> <<>>, queries |-> <<>>,
           payload |-> [featured |-> <<>>, sections |-> <<>>, generated_at |-> 0,
                        cached_ttl_minutes |-> 0]]

\* main.py:396-430, the cache aside
HomeFeedCompute ==
    /\ ~hp.active
    /\ LET base == homeBaseQueries(SEARCH_STATS)
       IN  /\ ~base.raised
           /\ \E outcomes \in [1..Len(base.queries) -> UNION {FeedOutcomes(i) : i \in 1..3}] :
                 /\ \A i \in 1..Len(base.queries) : outcomes[i] \in FeedOutcomes(i)
                 /\ hp' = [active |-> TRUE, outcomes |-> outcomes,
                           queries |-> base.queries,
                           payload |-> homePayload(base.queries, outcomes, now)]
    /\ UNCHANGED <<searchVars, pgVars, fVars, featVars, authVars, adVars, combineVars, thVars,
                   HOME_CACHE, now, hf, callVars>>

HomeFeedReturn ==
    /\ hp.active
    /\ hp' = HpIdle
    /\ UNCHANGED <<searchVars, pgVars, fVars, featVars, authVars, adVars, combineVars, thVars,
                   HOME_CACHE, now, hf, callVars>>

---------------------------------------------------------------------------
(* Idle values of the calls modelled below.                                *)

HomeCacheEmpty == [payload |-> None, expires |-> 0 - 1]

\* main.py:390-432, home-feed requests in flight
MaxHomeRequests == 3
MaxClock == 20
ClockTicks == {5, 10}

HfReqIdle == [pc |-> "out", checkedAt |-> 0, cacheAtCheck |-> HomeCacheEmpty,
              sawTorn |-> FALSE, searches |-> 0, found |-> 0, mine |-> None,
              storedAt |-> 0, cacheAfterStore |-> HomeCacheEmpty, resp |-> None]

\* running: the request whose coroutine holds the event loop (0: none);
\* payload_by, expires_by, lastStore: which request wrote the slot's fields
HfInit == [running |-> 0, overlap |-> FALSE, payload_by |-> 0, expires_by |-> 0,
           lastStore |-> 0, req |-> [r \in 1..MaxHomeRequests |-> HfReqIdle]]

\* a.py:170-263, a scrape_nestoria call
NesIdle == [pc |-> "idle", zona |-> <<>>, palabras_clave |-> <<>>,
            dormitorios |-> <<"0">>, price_max |-> None, kw_param |-> None,
            idx |-> 1, pages |-> 0, requests |-> <<>>, seen_links |-> {},
            aggregated |-> <<>>]

\* a.py:587-602, a _filter_by_keywords call
KwfIdle == [pc |-> "idle", df |-> <<>>, palabras_clave |-> <<>>, out |-> <<>>]

\* main.py:379-388, a /trending call
TrIdle == [pc |-> "idle", limit |-> 0, status |-> 0, keys |-> <<>>, items |-> <<>>]

\* a.py:116-127, 282, 373-388, 488, 527: one page handed to an adapter's selectors
SelIdle == [pc |-> "idle", name |-> "none", soup |-> <<>>, cards |-> <<>>,
            results |-> <<>>]

---------------------------------------------------------------------------
(* Initial values.                                                         *)

InitSearch == SEARCH_STATS = <<>> /\ response = NoResponse /\ lastReq = NoRequest
InitPg == pgIn = PgIdle /\ pgOut = PgNoResult
InitF == fIn = FIdle /\ fOut = <<>>
InitAd == ad = AdIdle /\ sessions = <<>> /\ calls = 0
InitRc == combine = CombineIdle
InitTh == th = ThInit /\ STATS_LOCK = 0

\* no mark_featured_one call in progress
MfIdle == [pc |-> "idle", items |-> <<>>, out |-> <<>>]

\* a token that does not decode
NoToken == [type |-> "garbage", sub |-> 0, jti |-> 0, exp |-> 0]

\* no auth handler call in progress on the thread
AuthIdle == [pc |-> "idle", op |-> "none", token |-> NoToken, status |-> 0,
             revokedAtStart |-> {}]

MaxAuthThreads == 2   \* auth handlers running at once (threadpool)
AuthThreads == 1..MaxAuthThreads

\* calls: the handler call of each thread; issued: the tokens handed out;
\* loggedOut: the session ids a logout succeeded for; started: calls begun;
\* jtis: session ids made so far (uuid4 never repeats)
AuthInit == [calls |-> [t \in AuthThreads |-> AuthIdle], issued |-> {},
             loggedOut |-> {}, started |-> 0, jtis |-> 0]

InitFeat == mf = MfIdle
InitAuth == Session = <<>> /\ auth = AuthInit /\ utcnow = 0
InitHomeCache == HOME_CACHE = HomeCacheEmpty /\ now = 0 /\ hf = HfInit /\ hp = HpIdle
InitCalls == nes = NesIdle /\ kwf = KwfIdle /\ tr = TrIdle /\ sel = SelIdle
InitRest == InitPg /\ InitF /\ InitAd /\ InitRc /\ InitTh

Init == InitSearch /\ InitRest /\ InitHomeCache /\ InitCalls /\ InitFeat /\ InitAuth

---------------------------------------------------------------------------
(* Spec: search requests served one after the other.                       *)

\* no request is being served, and the behaviour's budget is not used up
CanSearch == response = NoResponse /\ TotalSearches(SEARCH_STATS) < MaxSearches

Search ==
    /\ CanSearch
    /\ \E page \in PageInputs, page_size \in PageSizeInputs,
          outcome \in ScraperOutcomes(MaxResults) :
          SearchLogic(PlainQuery, page, page_size, outcome)
    /\ UNCHANGED <<pgVars, fVars, featVars, authVars, adVars, combineVars, thVars, homeVars, callVars>>

Return ==
    /\ Deliver
    /\ UNCHANGED <<pgVars, fVars, featVars, authVars, adVars, combineVars, thVars, homeVars, callVars>>

Next == Search \/ Return

Spec == Init /\ [][Next]_vars

---------------------------------------------------------------------------
(* SpecTrending: search requests whose queries differ in case, whitespace, *)
(* keywords and bounds; the scraper succeeds, finds nothing or fails.      *)

sSanIsidroPadded == <<" ","s","a","n"," ","i","s","i","d","r","o"," ">>
sSanIsidroWide   == <<"s","a","n"," "," ","i","s","i","d","r","o">>

TrendZonas == {sSanIsidro, sSanIsidroCaps, sSanIsidroPadded, sSanIsidroWide}
TrendPalabras == {<<>>, sPiscina, sPiscinaCaps}
TrendQueries ==
    {Query(z, <<"0">>, <<"0">>, None, None, p) : z \in TrendZonas, p \in TrendPalabras}
      \cup {Query(sSanIsidro, <<"2">>, <<"1">>, Some(500), Some(1500), <<>>)}

TrendOutcomes ==
    {o \in ScraperOutcomes(1) : o.rows \in {<<>>, <<Catalogue[1]>>}}

SearchTrend ==
    /\ CanSearch
    /\ \E q \in TrendQueries, outcome \in TrendOutcomes :
          SearchLogic(q, Some(1), None, outcome)
    /\ UNCHANGED <<pgVars, fVars, featVars, authVars, adVars, combineVars, thVars, homeVars, callVars>>

NextTrending == SearchTrend \/ Return

SpecTrending == Init /\ [][NextTrending]_vars

---------------------------------------------------------------------------
(* Claims on the search response and the trending counters.                *)

Pending == response # NoResponse

\* C1: in every search response no two listings of the returned page share
\* the same non-empty link.
C1_NoSharedLinkInPage ==
    \A i, j \in 1..Len(response.properties) :
        (i # j /\ response.properties[i].link # <<>>)
            => response.properties[i].link # response.properties[j].link

\* the scraper returned two listings with one link, and the page holds two
\* listings that have links
C1_Witness ==
    /\ Pending
    /\ \E i, j \in 1..Len(lastReq.rows) :
          i # j /\ lastReq.rows[i].link # <<>>
                /\ lastReq.rows[i].link = lastReq.rows[j].link
    /\ Cardinality({i \in 1..Len(response.properties) :
                       response.properties[i].link # <<>>}) >= 2

\* the lowest index of a listing of maximal score
FirstBest(items) ==
    CHOOSE b \in 1..Len(items) :
        /\ \A j \in 1..Len(items) :
              ~scoreGT(score_property(items[j]), score_property(items[b]))
        /\ \A j \in 1..(b - 1) :
              scoreGT(score_property(items[b]), score_property(items[j]))

\* C3 (as claimed): every non-empty returned page has exactly one featured
\* listing, the first highest-scoring listing of that page, on every page
\* number.
C3_OneFeaturedPerPage ==
    response.properties # <<>> =>
        \A i \in 1..Len(response.properties) :
            response.properties[i].is_featured = (i = FirstBest(response.properties))

\* two texts that differ only in letter case or in whitespace
SameUpToCaseAndSpace(s, t) ==
    LET a == SelectSeq(s, LAMBDA c : ~IsSpace(c))
        b == SelectSeq(t, LAMBDA c : ~IsSpace(c))
    IN  Len(a) = Len(b) /\ \A i \in 1..Len(a) : lowerChar(a[i]) = lowerChar(b[i])

\* two texts that differ only in letter case or in leading and trailing
\* whitespace
SameUpToCaseAndPadding(s, t) ==
    LET firstOf(x) == Min({i \in 1..Len(x) : ~IsSpace(x[i])})
        lastOf(x) == Max({i \in 1..Len(x) : ~IsSpace(x[i])})
        blank(x) == \A i \in 1..Len(x) : IsSpace(x[i])
    IN  IF blank(s) \/ blank(t) THEN blank(s) /\ blank(t)
        ELSE /\ lastOf(s) - firstOf(s) = lastOf(t) - firstOf(t)
             /\ \A k \in 0..(lastOf(s) - firstOf(s)) :
                   lowerChar(s[firstOf(s) + k]) = lowerChar(t[firstOf(t) + k])

SameOtherFields(q1, q2) ==
    /\ q1.dormitorios = q2.dormitorios /\ q1.banos = q2.banos
    /\ q1.price_min = q2.price_min /\ q1.price_max = q2.price_max

\* C9 (as claimed): the search just served is counted under the entry of
\* every query that differs from it only in letter case or in whitespace.
C9_CaseAndWhitespace ==
    Pending =>
        \A q2 \in TrendQueries :
            ( /\ SameUpToCaseAndSpace(lastReq.q.zona, q2.zona)
              /\ SameUpToCaseAndSpace(lastReq.q.palabras_clave, q2.palabras_clave)
              /\ SameOtherFields(lastReq.q, q2) )
            => /\ _stats_key(q2) = _stats_key(lastReq.q)
               /\ statsGet(SEARCH_STATS, _stats_key(q2)) >= 1

\* C9 (amended): the search just served is counted under the entry of every
\* query that differs from it only in letter case or in leading and trailing
\* whitespace of zone and keywords.
C9_CaseAndPadding ==
    Pending =>
        \A q2 \in TrendQueries :
            ( /\ SameUpToCaseAndPadding(lastReq.q.zona, q2.zona)
              /\ SameUpToCaseAndPadding(lastReq.q.palabras_clave, q2.palabras_clave)
              /\ SameOtherFields(lastReq.q, q2) )
            => /\ _stats_key(q2) = _stats_key(lastReq.q)
               /\ statsGet(SEARCH_STATS, _stats_key(q2)) >= 1

\* two searches whose zones differ in case and padding and whose keywords
\* differ in case and padding were counted under one entry
C9_Witness ==
    /\ Pending
    /\ Len(SEARCH_STATS) = 1 /\ SEARCH_STATS[1].count = 2
    /\ lastReq.q.zona = sSanIsidroPadded
    /\ lastReq.q.palabras_clave = sPiscinaCaps

\* C10: every search request adds exactly 1 to the count of its key, whatever
\* the scraper does; no count ever decreases and no key is ever removed.
C10_CountsGrowByOne ==
    [][ /\ (~Pending /\ Pending') =>
              statsGet(SEARCH_STATS', _stats_key(lastReq'.q))
                  = statsGet(SEARCH_STATS, _stats_key(lastReq'.q)) + 1
        /\ \A i \in 1..Len(SEARCH_STATS) :
              /\ i <= Len(SEARCH_STATS')
              /\ SEARCH_STATS'[i].key = SEARCH_STATS[i].key
              /\ SEARCH_STATS'[i].count >= SEARCH_STATS[i].count ]_vars

\* a key was counted twice, the second time for a request whose scraper run
\* raised
C10_Witness ==
    /\ Pending /\ lastReq.kind = "raise"
    /\ statsGet(SEARCH_STATS, _stats_key(lastReq.q)) = 2

\* C13: whatever page and page_size are requested (absent, zero, negative,
\* over-large), the meta of the response has 1 <= page_size <= MAX_PAGE_SIZE
\* and 1 <= page <= max(1, total_pages), has_prev exactly when page > 1 and
\* has_next exactly when page < total_pages.
C13_MetaWithinBounds ==
    Pending =>
        LET m == response.meta
        IN  /\ 1 <= m.page_size /\ m.page_size <= MAX_PAGE_SIZE
            /\ 1 <= m.page /\ m.page <= Max({1, m.total_pages})
            /\ m.has_prev <=> m.page > 1
            /\ m.has_next <=> m.page < m.total_pages

\* page 3 was asked of two listings one to a page: page 2 is served
C13_Witness ==
    /\ Pending
    /\ lastReq.page = Some(3) /\ lastReq.page_size = Some(1)
    /\ response.meta.total = 2 /\ response.meta.page = 2
    /\ response.meta.has_prev /\ ~response.meta.has_next

\* the scraper's run gave no listing
NothingFound == lastReq.kind \notin {"list", "frame"} \/ lastReq.rows = <<>>

\* C14: a search that yields no listing is answered, for any requested page,
\* by a success with count 0, no listing, the explanatory message and the meta
\* page 1, total 0, total_pages 1, has_prev and has_next false.
C14_EmptyIsSuccess ==
    (Pending /\ NothingFound) =>
        /\ response.success /\ response.count = 0 /\ response.properties = <<>>
        /\ response.message = "none found"
        /\ response.meta.page = 1 /\ response.meta.total = 0
        /\ response.meta.total_pages = 1
        /\ ~response.meta.has_prev /\ ~response.meta.has_next

\* the scraper raised while page 3 was asked for
C14_Witness ==
    /\ Pending /\ lastReq.kind = "raise" /\ lastReq.page = Some(3)
    /\ response.success /\ response.meta.total_pages = 1

---------------------------------------------------------------------------
(* SpecPaginate and SpecFilter: paginate and the strict filter applied to  *)
(* bounded inputs.                                                         *)

NextPaginate == PaginateCall \/ PaginateReturn
SpecPaginate == Init /\ [][NextPaginate]_vars

NextFilter == FilterCall \/ FilterReturn
SpecFilter == Init /\ [][NextFilter]_vars

\* the slices of pages p..last, concatenated in page order
RECURSIVE PagesFrom(_, _, _, _)
PagesFrom(items, page_size, p, last) ==
    IF p > last THEN <<>>
    ELSE paginate(items, p, page_size).slice \o PagesFrom(items, page_size, p + 1, last)

\* C4: paginate reports total = n and total_pages = max(1, ceil(n/page_size));
\* the slices of pages 1..total_pages concatenated are the input list; a page
\* beyond total_pages is answered with page total_pages (45 items, page_size
\* 20, page 10: page 3 of 3).
C4_Paginate ==
    pgIn # PgIdle =>
        LET n == Len(pgIn.items)
            ps == pgIn.page_size
            tp == pgOut.meta.total_pages
            last == paginate(pgIn.items, tp, ps)
        IN  /\ pgOut.meta.total = n
            /\ tp >= 1 /\ tp * ps >= n /\ (tp > 1 => (tp - 1) * ps < n)
            /\ PagesFrom(pgIn.items, ps, 1, tp) = pgIn.items
            /\ pgIn.page <= tp => pgOut.meta.page = pgIn.page
            /\ pgIn.page > tp =>
                  /\ pgOut = last
                  /\ pgOut.meta.page = tp
                  /\ pgOut.slice = SubSeq(pgIn.items, (tp - 1) * ps + 1, n)
                  /\ (n > 0 => pgOut.slice # <<>>)
            /\ (n = 45 /\ ps = 20 /\ pgIn.page = 10) =>
                  (tp = 3 /\ pgOut.meta.page = 3 /\ Len(pgOut.slice) = 5)

\* 45 items, page_size 20, page 10 requested
C4_Witness ==
    /\ Len(pgIn.items) = 45 /\ pgIn.page_size = 20 /\ pgIn.page = 10
    /\ pgOut.meta.page = 3 /\ pgOut.slice = <<41, 42, 43, 44, 45>>

\* the amount each price text of FilterRows stands for in local currency
\* (<<>>: none)
ExpectedSoles(precio) ==
    CASE precio = sSoles1200 -> Some(1200)
      [] precio = sSoles1500 -> Some(1500)
      [] precio = sSoles50   -> Some(50)
      [] precio = sUsd900    -> None
      [] precio = sSolesBare -> None
      [] precio = <<>>       -> None

RowsOf(df) == {df[i] : i \in 1..Len(df)}

\* C2: with price_min or price_max supplied, every kept record has a local-
\* currency price within [min, max] and every record without one is removed
\* (500..1500 keeps "S/ 1,200" and removes "$ 900" and "S/ 50"); with neither
\* bound no record is removed on price grounds.
C2_PriceFilter ==
    fIn.active =>
        LET lo == fIn.price_min
            hi == fIn.price_max
            bounded == lo # None \/ hi # None
            inRange(v) == (lo = None \/ v >= lo[1]) /\ (hi = None \/ v <= hi[1])
            countsOff == fIn.dormitorios \in {<<>>, <<"0">>} /\ fIn.banos \in {<<>>, <<"0">>}
        IN  /\ bounded =>
                 \A r \in RowsOf(fOut) :
                     ExpectedSoles(r.precio) # None /\ inRange(ExpectedSoles(r.precio)[1])
            /\ bounded =>
                 \A r \in RowsOf(fIn.df) :
                     ExpectedSoles(r.precio) = None => r \notin RowsOf(fOut)
            /\ (bounded /\ countsOff) =>
                 fOut = SelectSeq(fIn.df, LAMBDA r :
                            ExpectedSoles(r.precio) # None
                                /\ inRange(ExpectedSoles(r.precio)[1]))
            /\ (~bounded /\ countsOff) => fOut = fIn.df
            /\ ~bounded =>
                 \A r1, r2 \in RowsOf(fIn.df) :
                     (r1.dormitorios = r2.dormitorios /\ r1.banos = r2.banos)
                         => (r1 \in RowsOf(fOut) <=> r2 \in RowsOf(fOut))

\* 500..1500 applied to a frame holding "S/ 1,200" and "$ 900": the first is
\* kept, the second removed
C2_Witness ==
    /\ fIn.active /\ fIn.price_min = Some(500) /\ fIn.price_max = Some(1500)
    /\ \E i, j \in 1..Len(fIn.df) :
          fIn.df[i].precio = sSoles1200 /\ fIn.df[j].precio = sUsd900
    /\ Len(fOut) = 1 /\ fOut[1].precio = sSoles1200

\* the count a bedroom or bathroom field of the frames stands for
ExpectedCount(field) ==
    CASE field = <<"2">> -> Some(2)
      [] field = <<"1">> -> Some(1)
      [] field = <<"3"," ","d","o","r","m">> -> Some(3)
      [] OTHER -> None

\* the integer a requested value stands for
ExpectedRequest(req) ==
    CASE req = <<"2">> -> Some(2)
      [] req = <<"0">> -> Some(0)
      [] OTHER -> None

filterUnbounded == fIn.price_min = None /\ fIn.price_max = None

\* C23 as stated: the bedroom (bathroom) constraint is active exactly when
\* the requested value is non-empty and not "0"; when it is active every kept
\* record holds, in its own field, the requested integer.
C23_ActiveWhenNotZero ==
    fIn.active =>
        LET on(req) == req # <<>> /\ req # <<"0">>
        IN  \A r \in RowsOf(fOut) :
                /\ on(fIn.dormitorios) =>
                      (ExpectedCount(r.dormitorios) # None
                         /\ ExpectedCount(r.dormitorios) = ExpectedRequest(fIn.dormitorios))
                /\ on(fIn.banos) =>
                      (ExpectedCount(r.banos) # None
                         /\ ExpectedCount(r.banos) = ExpectedRequest(fIn.banos))

\* C23: the bedroom (bathroom) constraint is active exactly when the
\* requested value is not blank, is not "0" and reads as an integer; when it
\* is active a record is kept only if the first integer in its own field
\* equals the requested one, and a record with no integer there is removed;
\* when it is inactive no record is removed on that ground, so "0", an
\* empty, a blank or a non-numeric value never means "match zero".
C23_CountFilter ==
    fIn.active =>
        LET on(req) == req \notin {<<>>, <<" ">>, <<"0">>} /\ ExpectedRequest(req) # None
            keeps(req, field) ==
                on(req) => (ExpectedCount(field) # None
                              /\ ExpectedCount(field) = ExpectedRequest(req))
        IN  /\ \A r \in RowsOf(fOut) :
                  keeps(fIn.dormitorios, r.dormitorios) /\ keeps(fIn.banos, r.banos)
            /\ filterUnbounded =>
                  fOut = SelectSeq(fIn.df, LAMBDA r :
                             keeps(fIn.dormitorios, r.dormitorios)
                               /\ keeps(fIn.banos, r.banos))
            /\ (filterUnbounded /\ ~on(fIn.dormitorios) /\ ~on(fIn.banos)) =>
                  fOut = fIn.df

\* two bedrooms asked for, bathrooms left at "0": of a record with "2" and a
\* record with "3 dorm" the first is kept alone
C23_Witness ==
    /\ fIn.active /\ fIn.dormitorios = <<"2">> /\ fIn.banos = <<"0">>
    /\ filterUnbounded /\ Len(fIn.df) = 2
    /\ fIn.df[1].dormitorios = <<"3"," ","d","o","r","m">>
    /\ fIn.df[2].dormitorios = <<"2">>
    /\ fOut = <<fIn.df[2]>>

---------------------------------------------------------------------------
(* SpecAdapter: adapter calls made one after the other.                    *)

NextAdapter ==
    \/ AdapterBegin \/ CreateDriver \/ DriverGet \/ UrbaniaWait
    \/ InfocasasScroll \/ InfocasasExtract
    \/ UrbaniaLoop \/ UrbaniaScroll \/ UrbaniaExtract \/ UrbaniaAdvance
    \/ QuitDriver \/ SingleFetch \/ NestoriaStart \/ NestoriaFetch
    \/ AdapterEnd

SpecAdapter == Init /\ [][NextAdapter]_vars

\* C5 (as claimed): every adapter call that met a failure (network error,
\* non-200 response, no match, failure to launch the browser) returns an empty
\* result and raises nothing.
C5_AdaptersNeverRaise ==
    ad.pc = "done" =>
        /\ ad.outcome = "returned"
        /\ ad.fault # "none" => ad.results = 0

\* C7: a browser session created by a call is quit before that call is over,
\* on every exit path; a failure of quit does not propagate; a session belongs
\* to one call only.
C7_SessionTeardown ==
    /\ \A i \in 1..Len(sessions) :
          sessions[i] = "open" => (ad.driver = i /\ ad.pc \notin {"idle", "done"})
    /\ ad.driver # 0 => ad.driver = Len(sessions)
    /\ (ad.pc = "done" /\ ad.driver # 0) =>
          (sessions[ad.driver] \in {"quit", "quit_failed"} /\ ad.outcome = "returned")
    /\ Len(sessions) <= calls + 1

\* in a second call, scrape_urbania got records, then met an exception, and
\* quit failed: the call returned
C7_Witness ==
    /\ calls = 1 /\ Len(sessions) = 2
    /\ ad.name = "urbania" /\ ad.pc = "done" /\ ad.page_count = 2
    /\ ad.fault = "script" /\ ad.outcome = "returned"
    /\ sessions = <<"quit", "quit_failed">>

\* an urbania iteration is over and the loop goes on
urbaniaIterated == ad.name = "urbania" /\ ad.pc = "loop" /\ ad.page_count >= 1

\* scrolls and iterations stay within their limits, the URL rewrite is used
\* only when no click went through, and the loop is left once neither
\* technique advanced
urbaniaAdvanceOrder ==
    ad.name = "urbania" =>
        /\ ad.page_count <= URBANIA_MAX_PAGES
        /\ ad.scrolls <= URBANIA_MAX_SCROLLS
        /\ ad.how = "url" => ~ad.clicked
        /\ ad.how = "click" => ad.clicked
        /\ (ad.tried /\ ad.how = "none") => ad.pc \in {"finally", "done"}

C22_AdvanceOnlyWhenNothingNew ==
    /\ urbaniaAdvanceOrder
    /\ urbaniaIterated =>
          \/ ad.new > 0 /\ ~ad.tried
          \/ ad.new = 0 /\ ad.tried /\ ad.how \in {"click", "url"}

\* the first iteration added records and the loop goes on with no attempt
\* to advance
C22_NoAttemptAfterNewRecords ==
    /\ urbaniaIterated /\ ad.page_count = 1
    /\ ad.new > 0 /\ ~ad.tried

---------------------------------------------------------------------------
(* SpecCombine: runs of run_and_combine_all in which adapters return,      *)
(* return None, or raise on the keyword call or on both calls.             *)

NextCombine == CombineBegin \/ CombineStep \/ CombineFinish \/ CombineReturn

SpecCombine == Init /\ [][NextCombine]_vars

\* the adapter raised on the keyword call, or on it and on the fallback
Failing(o) == o.kw = "raise" \/ (o.kw = "TypeError" /\ o.pos = "raise")

\* the frame a non-failing adapter returned; an empty frame for a failing one
FailingAsEmpty(o) == IF Failing(o) THEN <<>> ELSE o.df

\* the run in which each adapter returns the frame given for it
RECURSIVE ContributionsFrom(_, _, _)
ContributionsFrom(i, dfs, q) ==
    IF i > Len(SCRAPERS) THEN <<>>
    ELSE contribution(SCRAPERS[i], dfs[i], q) \o ContributionsFrom(i + 1, dfs, q)

RunWith(dfs, q) == drop_duplicates(ContributionsFrom(1, dfs, q))

\* C6: whatever subset of the adapters raises, the run completes without
\* raising, every adapter is invoked (by keyword first, positionally after a
\* TypeError), and the result, hence each adapter's records in it, is that of
\* the run in which the failing adapters returned empty frames.
C6_FailuresIsolated ==
    combine.pc = "done" =>
        LET dfs == [i \in 1..Len(combine.outs) |-> FailingAsEmpty(combine.outs[i])]
            kwCalls == SelectSeq(combine.invoked, LAMBDA c : c[2] = "kw")
        IN  /\ ~combine.crashed
            /\ Len(combine.outs) = Len(SCRAPERS)
            /\ kwCalls = [i \in 1..Len(SCRAPERS) |-> <<SCRAPERS[i], "kw">>]
            /\ \A i \in 1..Len(SCRAPERS) :
                  (<<SCRAPERS[i], "positional">> \in
                       {combine.invoked[j] : j \in 1..Len(combine.invoked)})
                     <=> combine.outs[i].kw = "TypeError"
            /\ combine.result = RunWith(dfs, combine.q)
            /\ combine.saved <=> combine.result # <<>>

\* nestoria raised, infocasas raised TypeError and then again, urbania
\* returned two records under a keyword only one of them holds, properati
\* returned a record urbania already gave, doomos returned None
C6_Witness ==
    /\ combine.pc = "done"
    /\ combine.q.palabras_clave = sPiscinaCaps
    /\ combine.outs = <<Raised, TypeErrorTwice, Returned(<<rowPiscina, rowCasa>>),
                        Returned(<<rowPiscina>>), ReturnedNone>>
    /\ Len(combine.result) = 2
    /\ combine.result[1].fuente = sUrbania /\ combine.result[2].fuente = sUrbania
    /\ combine.result[2].link = <<"u","2">>

\* the identity of a record: its link when it has one, else title and source
identityKey(r) == IF r.link # <<>> THEN <<"link", r.link>>
                  ELSE <<"titulo+fuente", r.titulo, r.fuente>>

\* the records no earlier record shares the identity of, in their order
firstOfIdentity(df) ==
    LET keep == {i \in 1..Len(df) :
                    \A j \in 1..(i - 1) : identityKey(df[j]) # identityKey(df[i])}
        RECURSIVE pick(_)
        pick(i) == IF i > Len(df) THEN <<>>
                   ELSE (IF i \in keep THEN <<df[i]>> ELSE <<>>) \o pick(i + 1)
    IN  pick(1)

\* C24: the merged result is the concatenation of the sources' records less
\* every record an earlier record shares the identity key with (the link when
\* it is not empty, else title and source), first occurrences kept in order;
\* two linkless records of one title from two sources are both kept, and
\* deduplicating the result again changes nothing.
C24_MergedByIdentityKey ==
    (combine.pc = "done" /\ ~combine.crashed) =>
        /\ combine.result = firstOfIdentity(concat(combine.frames))
        /\ firstOfIdentity(combine.result) = combine.result

\* two sources gave a linkless record of one title and the result holds one
C24_LinklessDropped ==
    /\ combine.pc = "done"
    /\ Cardinality({i \in 1..Len(combine.frames) :
                       \E k \in 1..Len(combine.frames[i]) :
                           /\ combine.frames[i][k].link = <<>>
                           /\ combine.frames[i][k].titulo = sCasa}) >= 2
    /\ Cardinality({i \in 1..Len(combine.result) :
                       combine.result[i].link = <<>>}) = 1

\* the records of adapter i that pass the strict filter, tagged
strictOnly(i) ==
    tagFrame(_filter_df_strict(normFrame(FailingAsEmpty(combine.outs[i])),
                               combine.q.dormitorios, combine.q.banos,
                               combine.q.price_min, combine.q.price_max),
             SCRAPERS[i])

\* the records kept of each adapter when the keyword filter goes to the
\* adapters that do not send the keywords
RECURSIVE keptWhenNotSent(_)
keptWhenNotSent(i) ==
    IF i > Len(SCRAPERS) THEN <<>>
    ELSE (IF sendsKeywords(SCRAPERS[i], combine.q.palabras_clave)
          THEN strictOnly(i)
          ELSE _filter_by_keywords(strictOnly(i), combine.q.palabras_clave))
           \o keptWhenNotSent(i + 1)

\* C25: the post-hoc keyword filter is applied to an adapter's records only
\* if the adapter does not send the keywords in its request; the records of
\* an adapter that sends them are not filtered again.
C25_FilterOnlyWhenNotSent ==
    (combine.pc = "done" /\ ~combine.crashed) =>
        concat(combine.frames) = keptWhenNotSent(1)

\* nestoria sent the keyword and returned a record without it, which the
\* run removed
C25_FilteredAgain ==
    /\ combine.pc = "done"
    /\ combine.q.palabras_clave = sPiscinaCaps
    /\ sendsKeywords(sNestoria, combine.q.palabras_clave)
    /\ combine.outs[1] = Returned(<<rowPiscina, rowCasa>>)
    /\ \A i \in 1..Len(combine.result) :
          combine.result[i].fuente = sNestoria => combine.result[i].titulo # sCasa

\* the requested count is an integer other than 0
countAsked(req) == req \in {<<"1">>, <<"2">>}

\* C28: whenever a bedroom or a bathroom count other than 0 is asked for,
\* run_and_combine_all returns an empty result whatever the sources return:
\* every adapter's records have empty bedroom and bathroom fields and the
\* strict filter removes the records whose count does not parse.
C28_CountConstraintEmptiesResult ==
    (combine.pc = "done"
       /\ (countAsked(combine.q.dormitorios) \/ countAsked(combine.q.banos))) =>
        /\ ~combine.crashed
        /\ combine.frames = <<>>
        /\ combine.result = <<>>
        /\ ~combine.saved

\* two bedrooms asked for; urbania returned two records and doomos one, and
\* the result is empty
C28_Witness ==
    /\ combine.pc = "done"
    /\ combine.q.dormitorios = <<"2">>
    /\ combine.outs[3] = Returned(<<rowPiscina, rowCasa>>)
    /\ combine.outs[5] = TypeErrorThen(<<rowCasa>>)
    /\ combine.result = <<>>

---------------------------------------------------------------------------
(* SpecConcurrent: handlers interleaved statement by statement.            *)

NextConcurrent ==
    \E t \in Threads :
        \/ RecordSearchCall(t) \/ SnapshotCall(t) \/ AcquireLock(t)
        \/ ReadCount(t) \/ WriteCount(t) \/ IterateStats(t) \/ ReleaseLock(t)

SpecConcurrent == Init /\ [][NextConcurrent]_vars

\* record_search calls on key k that have written and not yet released
Releasing(k) ==
    {t \in Threads : /\ th.thr[t].op = "record_search"
                     /\ th.thr[t].pc = "release"
                     /\ th.thr[t].key = k}

\* C8: under every interleaving the count of a key is the number of
\* record_search calls completed for it (one more while a call has written
\* and not yet released), a handler reads or writes SEARCH_STATS only while it
\* holds STATS_LOCK, and the snapshot a reader took is the sorted map as it is
\* with every started increment either complete or not yet begun.
C8_NoLostUpdate ==
    /\ \A k \in ConcKeys :
          statsGet(SEARCH_STATS, k) = th.completed[k] + Cardinality(Releasing(k))
    /\ \A t \in Threads :
          th.thr[t].pc \in {"read", "write", "iterate", "release"} => STATS_LOCK = t
    /\ \A t \in Threads :
          (th.thr[t].op \in {"trending", "home_feed"} /\ th.thr[t].pc = "release") =>
             /\ th.thr[t].snap = snapshotOf(SEARCH_STATS, th.thr[t].op, th.thr[t].limit)
             /\ \A k \in ConcKeys : statsGet(SEARCH_STATS, k) = th.completed[k]
             /\ \A u \in Threads : th.thr[u].pc \notin {"read", "write"}

\* two record_search calls for queries that differ in case are over, the key
\* stands at 2, a reader holds its snapshot and another call waits for the lock
C8_Witness ==
    /\ th.completed[_stats_key(Query(sSanIsidro, <<"0">>, <<"0">>, None, None, <<>>))] = 2
    /\ \E t \in Threads :
          /\ th.thr[t].op = "trending" /\ th.thr[t].pc = "release"
          /\ Len(th.thr[t].snap) = 1 /\ th.thr[t].snap[1].count = 2
    /\ \E u \in Threads :
          th.thr[u].op = "record_search" /\ th.thr[u].pc = "acquire"

---------------------------------------------------------------------------
(* SpecHomeFeed: the home-feed payload for every content of SEARCH_STATS   *)
(* in FeedStats and every choice of result lists.                          *)

InitHomeFeed ==
    /\ SEARCH_STATS \in FeedStats /\ response = NoResponse /\ lastReq = NoRequest
    /\ InitRest /\ InitHomeCache /\ InitCalls /\ InitFeat /\ InitAuth

NextHomeFeed == HomeFeedCompute \/ HomeFeedReturn

SpecHomeFeed == InitHomeFeed /\ [][NextHomeFeed]_vars

\* the first 20 listings of every result list, in order
RECURSIVE RawPool(_, _)
RawPool(outcomes, i) ==
    IF i > Len(outcomes) THEN <<>>
    ELSE pySlice(run_search(outcomes[i]), 0, 20) \o RawPool(outcomes, i + 1)

KeysOf(items) == {dedupeKey(items[i]) : i \in 1..Len(items)}

\* the listing that stands for key k in the deduplicated pool
FirstWithKey(k, items) ==
    items[Min({i \in 1..Len(items) : dedupeKey(items[i]) = k})]

\* C18: the featured list of a recomputed home feed holds min(9, size of the
\* deduplicated pool) listings with distinct identity keys, all flagged
\* is_featured, none of them scoring less than a pool listing left out; the
\* pool takes the first 20 listings of each query and a section shows the
\* first 6.
C18_HomeFeatured ==
    hp.active =>
        LET featured == hp.payload.featured
            raw == RawPool(hp.outcomes, 1)
            left == KeysOf(raw) \ KeysOf(featured)
        IN  /\ Len(featured) = Min({9, Cardinality(KeysOf(raw))})
            /\ Cardinality(KeysOf(featured)) = Len(featured)
            /\ KeysOf(featured) \subseteq KeysOf(raw)
            /\ \A k \in 1..Len(featured) :
                  /\ featured[k].is_featured
                  /\ [featured[k] EXCEPT !.is_featured = FALSE]
                        = FirstWithKey(dedupeKey(featured[k]), raw)
            /\ \A key \in left : \A k \in 1..Len(featured) :
                  ~scoreGT(score_property(FirstWithKey(key, raw)),
                           score_property(featured[k]))
            /\ Len(hp.payload.sections) = Len(hp.queries)
            /\ \A i \in 1..Len(hp.queries) :
                  LET sec == hp.payload.sections[i]
                      rows == run_search(hp.outcomes[i])
                  IN  /\ sec.count = Min({6, Len(rows)})
                      /\ Len(sec.properties) = sec.count
                      /\ \A j \in 1..sec.count :
                            [sec.properties[j] EXCEPT !.is_featured = FALSE] = rows[j]

\* three queries gave 21 listings each, with links of their own: the pool
\* holds far more than 9 listings and the 21st of each list, the cheapest, is
\* not featured
C18_Witness ==
    /\ hp.active
    /\ Len(hp.outcomes) = 3
    /\ \A i \in 1..3 : hp.outcomes[i] = [kind |-> "list", rows |-> GenList(i, 21, "own")]
    /\ Len(hp.payload.featured) = 9
    /\ \A k \in 1..9 : hp.payload.featured[k].link # GenListing(1, 21, "own").link
    /\ hp.payload.sections[1].count = 6


---------------------------------------------------------------------------
(* src/main.py:272-282, 390-432: the home-feed cache.  home_feed is a      *)
(* coroutine with no await in its body, so once the event loop has entered *)
(* it the loop runs nothing else until it returns; the clock goes on       *)
(* while it runs (the searches take time).                                 *)

\* main.py:275-278
get_home_cached_lte(cache, t) ==
    IF cache.payload # None /\ t <= cache.expires THEN cache.payload ELSE None

\* a payload with no featured listing taken for no payload
get_home_cached_nonempty(cache, t) ==
    IF cache.payload # None /\ cache.payload[1].featured # <<>> /\ t < cache.expires
    THEN cache.payload ELSE None

get_home_cached(cache, t) ==
    IF cache.payload # None /\ t < cache.expires THEN cache.payload ELSE None

\* main.py:390-391 (async def, no await): another request's coroutine
\* never runs while one is inside home_feed
canRun_preempted(r) == TRUE

canRun(r) == hf.running \in {0, r}

HomeRequests == 1..MaxHomeRequests

InFlight(r) == hf.req[r].pc \notin {"out", "done"}

\* the results of the searches of one recomputation
HomeOutcomes(queries) ==
    { [i \in 1..Len(queries) |-> [kind |-> "list", rows |-> GenList(i, n, "own")]]
        : n \in {0, 1} }
      \cup { [i \in 1..Len(queries) |-> [kind |-> "raise", rows |-> <<>>]] }

HfArrive(r) ==
    /\ hf.req[r].pc = "out"
    /\ hf' = [hf EXCEPT !.req[r].pc = "queued",
                        !.overlap = @ \/ (\E o \in HomeRequests \ {r} : InFlight(o))]
    /\ UNCHANGED <<searchVars, pgVars, fVars, featVars, authVars, adVars, combineVars, thVars,
                   HOME_CACHE, now, hp, callVars>>

\* main.py:392-394
HfCheck(r) ==
    /\ hf.req[r].pc = "queued"
    /\ canRun(r)
    /\ LET cached == get_home_cached(HOME_CACHE, now)
           seen == [hf EXCEPT !.req[r].checkedAt = now,
                              !.req[r].cacheAtCheck = HOME_CACHE,
                              !.req[r].sawTorn = (hf.payload_by # hf.expires_by)]
       IN  IF cached # None
             THEN hf' = [seen EXCEPT !.req[r].pc = "done", !.req[r].resp = cached]
             ELSE hf' = [seen EXCEPT !.req[r].pc = "compute", !.running = r]
    /\ UNCHANGED <<searchVars, pgVars, fVars, featVars, authVars, adVars, combineVars, thVars,
                   HOME_CACHE, now, hp, callVars>>

\* main.py:396-430
HfCompute(r) ==
    /\ hf.req[r].pc = "compute"
    /\ canRun(r)
    /\ LET base == homeBaseQueries(SEARCH_STATS)
       IN  /\ ~base.raised
           /\ \E outcomes \in HomeOutcomes(base.queries) :
                 hf' = [hf EXCEPT !.req[r].pc = "store_payload",
                                  !.req[r].searches = Len(base.queries),
                                  !.req[r].found = Len(homePool(homeItems(outcomes, 1), 1)),
                                  !.req[r].mine =
                                      Some(homePayload(base.queries, outcomes, now))]
    /\ UNCHANGED <<searchVars, pgVars, fVars, featVars, authVars, adVars, combineVars, thVars,
                   HOME_CACHE, now, hp, callVars>>

\* main.py:281
HfStorePayload(r) ==
    /\ hf.req[r].pc = "store_payload"
    /\ canRun(r)
    /\ HOME_CACHE' = [HOME_CACHE EXCEPT !.payload = hf.req[r].mine]
    /\ hf' = [hf EXCEPT !.req[r].pc = "store_expires", !.payload_by = r,
                        !.lastStore = r]
    /\ UNCHANGED <<searchVars, pgVars, fVars, featVars, authVars, adVars, combineVars, thVars,
                   now, hp, callVars>>

\* main.py:282
HfStoreExpires(r) ==
    /\ hf.req[r].pc = "store_expires"
    /\ canRun(r)
    /\ HOME_CACHE' = [HOME_CACHE EXCEPT !.expires = now + HOME_CACHE_TTL]
    /\ hf' = [hf EXCEPT !.req[r].pc = "return", !.expires_by = r, !.lastStore = r,
                        !.req[r].storedAt = now,
                        !.req[r].cacheAfterStore = HOME_CACHE']
    /\ UNCHANGED <<searchVars, pgVars, fVars, featVars, authVars, adVars, combineVars, thVars,
                   now, hp, callVars>>

\* main.py:432
HfReturn(r) ==
    /\ hf.req[r].pc = "return"
    /\ canRun(r)
    /\ hf' = [hf EXCEPT !.req[r].pc = "done", !.req[r].resp = hf.req[r].mine,
                        !.running = 0]
    /\ UNCHANGED <<searchVars, pgVars, fVars, featVars, authVars, adVars, combineVars, thVars,
                   HOME_CACHE, now, hp, callVars>>

\* datetime.utcnow() moves on
Tick ==
    /\ \E d \in ClockTicks :
          /\ now + d <= MaxClock
          /\ now' = now + d
    /\ UNCHANGED <<searchVars, pgVars, fVars, featVars, authVars, adVars, combineVars, thVars,
                   HOME_CACHE, hf, hp, callVars>>

HomeStats ==
    { <<>>,
      StatsAfter(<<PlainQueryOf(sSanIsidroCaps), qPiscinaAnywhere>>) }

InitHome ==
    /\ SEARCH_STATS \in HomeStats
    /\ response = NoResponse /\ lastReq = NoRequest
    /\ InitRest /\ InitHomeCache /\ InitCalls /\ InitFeat /\ InitAuth

NextHome ==
    \/ \E r \in HomeRequests : HfArrive(r)
    \/ \E r \in HomeRequests : HfCheck(r)
    \/ \E r \in HomeRequests : HfCompute(r)
    \/ \E r \in HomeRequests : HfStorePayload(r)
    \/ \E r \in HomeRequests : HfStoreExpires(r)
    \/ \E r \in HomeRequests : HfReturn(r)
    \/ Tick

SpecHome == InitHome /\ [][NextHome]_vars

HfDone(r) == hf.req[r].pc = "done"

\* the request found a payload in the slot and its clock reading was before the expiry
HfHit(r) ==
    /\ hf.req[r].cacheAtCheck.payload # None
    /\ hf.req[r].checkedAt < hf.req[r].cacheAtCheck.expires

emptyPayload(p) ==
    /\ p.featured = <<>>
    /\ \A i \in 1..Len(p.sections) :
          p.sections[i].count = 0 /\ p.sections[i].properties = <<>>

\* the request recomputed, its searches found nothing, and it has stored
HfStoredNothing(r) ==
    /\ hf.req[r].pc \in {"return", "done"}
    /\ hf.req[r].mine # None
    /\ hf.req[r].found = 0

\* C29: a recomputation whose searches all return no listing still stores
\* its payload (no featured listing, every section empty) with expiry = time
\* of storing + 15; every home-feed request that looks at the cache in the
\* 15 minutes from the storing returns that payload and runs no search.
C29_EmptyPayloadCached ==
    \A r \in HomeRequests :
        HfStoredNothing(r) =>
            LET q == hf.req[r]
            IN  /\ emptyPayload(q.mine[1])
                /\ q.cacheAfterStore =
                       [payload |-> q.mine, expires |-> q.storedAt + HOME_CACHE_TTL]
                /\ \A o \in HomeRequests \ {r} :
                      (/\ hf.req[o].pc \notin {"out", "queued"}
                       /\ hf.req[o].checkedAt >= q.storedAt
                       /\ hf.req[o].checkedAt < q.storedAt + HOME_CACHE_TTL)
                        => /\ HfDone(o)
                           /\ hf.req[o].resp = q.mine
                           /\ hf.req[o].searches = 0
                           /\ hf.req[o].mine = None

\* a recomputation found nothing and stored; a request ten minutes later was
\* answered with that payload; a request after the expiry recomputed and
\* found listings
C29_Witness ==
    \E a, b, c \in HomeRequests :
        /\ HfStoredNothing(a) /\ HfDone(a) /\ HfDone(b) /\ HfDone(c)
        /\ hf.req[b].checkedAt = hf.req[a].storedAt + 10
        /\ hf.req[b].resp = hf.req[a].mine /\ hf.req[b].searches = 0
        /\ emptyPayload(hf.req[b].resp[1])
        /\ hf.req[c].checkedAt >= hf.req[a].storedAt + HOME_CACHE_TTL
        /\ hf.req[c].found > 0

---------------------------------------------------------------------------
(* src/a.py:49-57, 116-263: scrape_nestoria, its requests and the records  *)
(* it merges.                                                              *)

\* accented letters are written as a letter followed by its mark
AccentMap == [c \in {"a'", "e'", "i'", "o'", "u'", "n~", "u:"} |->
                 CASE c = "a'" -> "a" [] c = "e'" -> "e" [] c = "i'" -> "i"
                   [] c = "o'" -> "o" [] c = "u'" -> "u" [] c = "n~" -> "n"
                   [] c = "u:" -> "u"]

\* a.py:53-54, str.translate
translateChar(c) == IF c \in DOMAIN AccentMap THEN AccentMap[c] ELSE c

\* a.py:55, re.sub(r"\s+", "-", s)
RECURSIVE spacesToDash(_)
spacesToDash(s) ==
    IF s = <<>> THEN <<>>
    ELSE IF IsSpace(Head(s))
           THEN IF Len(s) > 1 /\ IsSpace(s[2]) THEN spacesToDash(Tail(s))
                ELSE <<"-">> \o spacesToDash(Tail(s))
           ELSE <<Head(s)>> \o spacesToDash(Tail(s))

IsSlugChar(c) == c \in LowerSet \/ c \in DigitSet \/ c = "-"

RECURSIVE mapTranslate(_)
mapTranslate(s) ==
    IF s = <<>> THEN <<>> ELSE <<translateChar(Head(s))>> \o mapTranslate(Tail(s))

\* a.py:49-57
slugify_zone(zona) ==
    IF zona = <<>> THEN <<>>
    ELSE SelectSeq(spacesToDash(mapTranslate(strip(lower(zona)))), IsSlugChar)

\* d.replace("_", " ")
RECURSIVE underscoreToSpace(_)
underscoreToSpace(s) ==
    IF s = <<>> THEN <<>>
    ELSE <<IF Head(s) = "_" THEN " " ELSE Head(s)>> \o underscoreToSpace(Tail(s))

sPool == <<"p","o","o","l">>
sComercial == <<"c","o","m","e","r","c","i","a","l">>
sCommercial == <<"c","o","m","m","e","r","c","i","a","l">>

\* requests.utils.quote on letters, digits and blanks
RECURSIVE quote(_)
quote(s) ==
    IF s = <<>> THEN <<>>
    ELSE (IF Head(s) = " " THEN <<"%","2","0">> ELSE <<Head(s)>>) \o quote(Tail(s))

\* a.py:181-193; the entries of NESTORIA_KEYWORDS_MAP the inputs below reach
nestoriaKwParam(palabras_clave) ==
    IF palabras_clave = <<>> \/ strip(palabras_clave) = <<>> THEN None
    ELSE LET kw_key == lower(strip(palabras_clave))
         IN  IF kw_key = sPiscina THEN Some(<<"keywords_features", sPool>>)
             ELSE IF kw_key = sComercial
                    THEN Some(<<"keywords_property_type", sCommercial>>)
             ELSE Some(<<"keywords_features", quote(strip(palabras_clave))>>)

\* a.py:199-210, 242-250: the query parameters of a request
nestoriaParams(kw_param, dormitorios, price_max) ==
    (IF kw_param # None THEN <<kw_param[1]>> ELSE <<>>)
      \o (IF dormitorios # <<>> /\ dormitorios # <<"0">>
            THEN << <<"bedrooms", dormitorios>> >> ELSE <<>>)
      \o (IF price_max # None
            THEN << <<"price_max", intToStr(price_max[1])>> >> ELSE <<>>)

sNestoriaHost ==
    <<"h","t","t","p","s",":","/","/","w","w","w",".","n","e","s","t","o","r","i","a",".","p","e">>

\* a.py:132-133, 137-138
absLink(l) == IF l # <<>> /\ Head(l) = "/" THEN sNestoriaHost \o l ELSE l

\* a.py:130-138: the link of a page element (href, else data-href)
elementLink(e) ==
    IF ~e.anchor THEN <<>>
    ELSE IF e.href # <<>> THEN absLink(e.href)
    ELSE absLink(e.data_href)

NESTORIA_SELECTORS == 7

selected(soup, k) == SelectSeq(soup, LAMBDA e : k \in e.sels)

RECURSIVE itemsFrom(_, _)
itemsFrom(soup, k) ==
    IF k > NESTORIA_SELECTORS THEN <<>>
    ELSE selected(soup, k) \o itemsFrom(soup, k + 1)

\* a.py:118-127: every selector that matches adds its elements; with none
\* matching, any li holding a price
nestoriaItems(soup) ==
    LET items == itemsFrom(soup, 1)
    IN  IF items # <<>> THEN items
        ELSE SelectSeq(soup, LAMBDA e : e.li /\ e.price)

\* a.py:128-167
RECURSIVE parseScan(_, _, _)
parseScan(items, seen_links, results) ==
    IF items = <<>> THEN [results |-> results, seen_links |-> seen_links]
    ELSE LET link == elementLink(Head(items))
         IN  IF link \in seen_links
               THEN parseScan(Tail(items), seen_links, results)
               ELSE parseScan(Tail(items),
                              IF link # <<>> THEN seen_links \cup {link}
                              ELSE seen_links,
                              Append(results, [link |-> link, el |-> Head(items).id]))

\* every item made a record, seen or not
RECURSIVE parseAll(_, _, _)
parseAll(items, seen_links, results) ==
    IF items = <<>> THEN [results |-> results, seen_links |-> seen_links]
    ELSE LET link == elementLink(Head(items))
         IN  parseAll(Tail(items),
                      IF link # <<>> THEN seen_links \cup {link} ELSE seen_links,
                      Append(results, [link |-> link, el |-> Head(items).id]))

_parse_nestoria_noseen(soup, seen_links) ==
    parseAll(nestoriaItems(soup), seen_links, <<>>)

\* a.py:116-168
_parse_nestoria_listings_from_soup(soup, seen_links) ==
    parseScan(nestoriaItems(soup), seen_links, <<>>)

MAX_RESULTS_PER_ZONE == 200

Element(id, sels, li, price, anchor, href, data_href) ==
    [id |-> id, sels |-> sels, li |-> li, price |-> price, anchor |-> anchor,
     href |-> href, data_href |-> data_href]

sLinkA == <<"/","a">>
sLinkAAbs == sNestoriaHost \o sLinkA
sLinkB == <<"/","b">>

\* pages the site may answer with
NesSoups ==
    { <<>>,
      << Element(1, {1}, TRUE, TRUE, TRUE, sLinkA, <<>>),
         Element(2, {1, 2}, TRUE, TRUE, FALSE, <<>>, <<>>),
         Element(3, {1}, TRUE, TRUE, TRUE, <<>>, sLinkB) >>,
      << Element(1, {2}, TRUE, TRUE, TRUE, sLinkAAbs, <<>>),
         Element(2, {5}, FALSE, FALSE, TRUE, sLinkB, <<>>) >>,
      << Element(1, {}, TRUE, TRUE, TRUE, sLinkB, <<>>),
         Element(2, {}, TRUE, FALSE, TRUE, sLinkA, <<>>),
         Element(3, {}, TRUE, TRUE, TRUE, <<>>, <<>>) >> }

\* a.py:211-221, 253-259: the answer to one requests.get
NesResponses ==
    {[kind |-> "exception", soup |-> <<>>], [kind |-> "status", soup |-> <<>>]}
      \cup {[kind |-> "ok", soup |-> s] : s \in NesSoups}

MaxNesPages == 2

NesZonas == {<<>>, <<" ">>, sSanIsidroCaps, <<"B","r","e","n~","a","!">>}
NesPalabras == {<<>>, <<" ">>, sPiscinaCaps, sDepaPiscina, sComercial}

\* a.py:211-219: what one request adds
fetched(resp, seen_links) ==
    IF resp.kind = "ok" THEN _parse_nestoria_listings_from_soup(resp.soup, seen_links)
    ELSE [results |-> <<>>, seen_links |-> seen_links]

NesAllowed(resp) == resp.soup = <<>> \/ nes.pages < MaxNesPages

NesAfter(target, resp) ==
    LET got == fetched(resp, nes.seen_links)
    IN  [nes EXCEPT !.requests = Append(@, [zone |-> target,
                                            params |-> nestoriaParams(nes.kw_param,
                                                          nes.dormitorios, nes.price_max)]),
                    !.pages = IF resp.soup # <<>> THEN @ + 1 ELSE @,
                    !.seen_links = got.seen_links,
                    !.aggregated = @ \o pySlice(got.results, 0, MAX_RESULTS_PER_ZONE)]

\* a.py:170-195
NesCall ==
    /\ nes.pc = "idle"
    /\ \E zona \in NesZonas, palabras_clave \in NesPalabras,
          dormitorios \in {<<"0">>, <<"2">>}, price_max \in {None, Some(1200)} :
          nes' = [NesIdle EXCEPT !.pc = "branch", !.zona = zona,
                                 !.palabras_clave = palabras_clave,
                                 !.dormitorios = dormitorios, !.price_max = price_max,
                                 !.kw_param = nestoriaKwParam(palabras_clave)]
    /\ UNCHANGED <<searchVars, pgVars, fVars, featVars, authVars, adVars, combineVars, thVars, homeVars,
                   kwf, tr, sel>>

\* the zone tested without strip()
nesZoneGiven_nostrip == nes.zona # <<>>

nesZoneGiven == nes.zona # <<>> /\ strip(nes.zona) # <<>>

\* a.py:223-227
NesZoneRequest ==
    /\ nes.pc = "branch" /\ nesZoneGiven
    /\ \E resp \in NesResponses :
          /\ NesAllowed(resp)
          /\ nes' = [NesAfter(Some(slugify_zone(nes.zona)), resp) EXCEPT !.pc = "return"]
    /\ UNCHANGED <<searchVars, pgVars, fVars, featVars, authVars, adVars, combineVars, thVars, homeVars,
                   kwf, tr, sel>>

\* a.py:230-238
NesDistrictRequest ==
    /\ nes.pc = "branch" /\ ~nesZoneGiven /\ nes.kw_param # None
    /\ \E resp \in NesResponses :
          /\ NesAllowed(resp)
          /\ nes' = [NesAfter(Some(slugify_zone(underscoreToSpace(
                                       NESTORIA_DISTRICTS[nes.idx]))), resp)
                       EXCEPT !.idx = @ + 1,
                              !.pc = IF nes.idx = Len(NESTORIA_DISTRICTS)
                                     THEN "return" ELSE "branch"]
    /\ UNCHANGED <<searchVars, pgVars, fVars, featVars, authVars, adVars, combineVars, thVars, homeVars,
                   kwf, tr, sel>>

\* a.py:239-259
NesGeneralRequest ==
    /\ nes.pc = "branch" /\ ~nesZoneGiven /\ nes.kw_param = None
    /\ \E resp \in NesResponses :
          /\ NesAllowed(resp)
          /\ nes' = [NesAfter(None, resp) EXCEPT !.pc = "return"]
    /\ UNCHANGED <<searchVars, pgVars, fVars, featVars, authVars, adVars, combineVars, thVars, homeVars,
                   kwf, tr, sel>>

\* a.py:261-263
NesReturn ==
    /\ nes.pc = "return"
    /\ nes' = NesIdle
    /\ UNCHANGED <<searchVars, pgVars, fVars, featVars, authVars, adVars, combineVars, thVars, homeVars,
                   kwf, tr, sel>>

NextNestoria ==
    NesCall \/ NesZoneRequest \/ NesDistrictRequest \/ NesGeneralRequest \/ NesReturn

SpecNestoria == Init /\ [][NextNestoria]_vars


NesReturning == nes.pc = "return"

districtSlug(i) == slugify_zone(underscoreToSpace(NESTORIA_DISTRICTS[i]))

\* the requests of the call are one per district, in the order of the list
NesFannedOut ==
    /\ Len(nes.requests) = Len(NESTORIA_DISTRICTS)
    /\ \A i \in 1..Len(nes.requests) : nes.requests[i].zone = Some(districtSlug(i))

NesOneGeneral == Len(nes.requests) = 1 /\ nes.requests[1].zone = None

NesOneZone ==
    Len(nes.requests) = 1 /\ nes.requests[1].zone = Some(slugify_zone(nes.zona))

nesBlank(s) == strip(s) = <<>>

NesLinks == {nes.aggregated[i].link : i \in 1..Len(nes.aggregated)} \ {<<>>}

\* C16: with a blank zone and a keyword, the requests made so far are those
\* for the first districts of NESTORIA_DISTRICTS in order, one each, all
\* 23 once the call returns, whatever the earlier requests answered; and
\* the merged records never hold the same non-empty link twice.
C16_OnePerDistrictNoDuplicateLink ==
    (nes.pc \in {"branch", "return"} /\ nesBlank(nes.zona) /\ ~nesBlank(nes.palabras_clave)) =>
        /\ Len(nes.requests) = nes.idx - 1
        /\ \A i \in 1..Len(nes.requests) : nes.requests[i].zone = Some(districtSlug(i))
        /\ NesReturning => Len(nes.requests) = Len(NESTORIA_DISTRICTS)
        /\ \A i, j \in 1..Len(nes.aggregated) :
              (i # j /\ nes.aggregated[i].link # <<>>) =>
                  nes.aggregated[i].link # nes.aggregated[j].link
        /\ NesLinks = nes.seen_links

\* an empty zone and "piscina": all districts were asked, two of them answered
\* with pages that share a link, and the link is in the result once
C16_Witness ==
    /\ NesReturning /\ nes.zona = <<>> /\ nes.palabras_clave = sPiscinaCaps
    /\ Len(nes.requests) = Len(NESTORIA_DISTRICTS)
    /\ nes.pages = MaxNesPages
    /\ sLinkAAbs \in NesLinks /\ sNestoriaHost \o sLinkB \in NesLinks
    /\ Len(nes.aggregated) > Cardinality(NesLinks)


---------------------------------------------------------------------------
(* src/main.py:379-388: the trending listing.                              *)

MaxTrSearches == 4

sZonaBar == <<"a","|","b">>

\* searches recorded before the listing is asked for
TrQueries ==
    { PlainQueryOf(sSanIsidroCaps),
      PlainQueryOf(sMiraflores),
      Query(<<>>, <<"2">>, <<"0">>, Some(500), Some(1200), sPiscinaCaps),
      PlainQueryOf(sZonaBar) }

\* limit: int = Query(6, ge=1, le=20)
TrLimits == {1, 2, 6}

RECURSIVE statsTotal(_)
statsTotal(stats) ==
    IF stats = <<>> THEN 0 ELSE Head(stats).count + statsTotal(Tail(stats))

\* main.py:256-259, a search being counted
TrRecord ==
    /\ tr.pc = "idle"
    /\ statsTotal(SEARCH_STATS) < MaxTrSearches
    /\ \E q \in TrQueries : SEARCH_STATS' = record_search(SEARCH_STATS, q)
    /\ UNCHANGED <<notStatsVars, thVars>>

\* main.py:383-387: the entries decoded up to the first key that does not decode
RECURSIVE trendingPayload(_)
trendingPayload(items) ==
    IF items = <<>> THEN [raised |-> FALSE, payload |-> <<>>]
    ELSE LET parsed == parse_stats_key(Head(items).key)
         IN  IF parsed.raised THEN [raised |-> TRUE, payload |-> <<>>]
             ELSE LET rest == trendingPayload(Tail(items))
                  IN  IF rest.raised THEN rest
                      ELSE [raised |-> FALSE,
                            payload |-> <<[q |-> parsed.q, count |-> Head(items).count]>>
                                          \o rest.payload]

\* main.py:379-388; an exception leaving the handler is answered with 500
TrendingCall ==
    /\ tr.pc = "idle"
    /\ \E limit \in TrLimits :
          LET items == pySlice(sortedByCount(SEARCH_STATS), 0, limit)
              out == trendingPayload(items)
          IN  tr' = [pc |-> "resp", limit |-> limit,
                     status |-> IF out.raised THEN 500 ELSE 200,
                     keys |-> [i \in 1..Len(items) |-> items[i].key],
                     items |-> out.payload]
    /\ UNCHANGED <<searchVars, pgVars, fVars, featVars, authVars, adVars, combineVars, thVars, homeVars,
                   nes, kwf, sel>>

TrendingReturn ==
    /\ tr.pc = "resp"
    /\ tr' = TrIdle
    /\ UNCHANGED <<searchVars, pgVars, fVars, featVars, authVars, adVars, combineVars, thVars, homeVars,
                   nes, kwf, sel>>

NextTrendingList == TrRecord \/ TrendingCall \/ TrendingReturn

SpecTrendingList == Init /\ [][NextTrendingList]_vars

statsIndex(key) == CHOOSE i \in 1..Len(SEARCH_STATS) : SEARCH_STATS[i].key = key

\* key a comes before key b in the listing order: higher count, or the same
\* count and inserted earlier
trBefore(a, b) ==
    \/ SEARCH_STATS[a].count > SEARCH_STATS[b].count
    \/ SEARCH_STATS[a].count = SEARCH_STATS[b].count /\ a < b

\* C17: for every limit N and every content of SEARCH_STATS the trending
\* listing answers with min(N, number of keys) entries, by count descending
\* and, among equal counts, in insertion order; each entry holds the filter
\* values decoded from its key and the key's count.
C17_TrendingListing ==
    tr.pc = "resp" =>
        /\ tr.status = 200
        /\ Len(tr.items) = Min({tr.limit, Len(SEARCH_STATS)})
        /\ Len(tr.keys) = Len(tr.items)
        /\ \A i \in 1..Len(tr.keys) :
              /\ \E k \in 1..Len(SEARCH_STATS) : SEARCH_STATS[k].key = tr.keys[i]
              /\ \A j \in 1..Len(tr.keys) :
                    i < j => trBefore(statsIndex(tr.keys[i]), statsIndex(tr.keys[j]))
              /\ \A k \in 1..Len(SEARCH_STATS) :
                    (\A j \in 1..Len(tr.keys) : tr.keys[j] # SEARCH_STATS[k].key)
                        => trBefore(statsIndex(tr.keys[i]), k)
              /\ _stats_key(tr.items[i].q) = tr.keys[i]
              /\ tr.items[i].count = SEARCH_STATS[statsIndex(tr.keys[i])].count

\* the same with the keys that do not decode set aside: the listing is as
\* stated whenever every key among the first N splits into six fields
C17_ListingWhenKeysDecode ==
    (tr.pc = "resp" /\ tr.status = 200) =>
        /\ Len(tr.items) = Min({tr.limit, Len(SEARCH_STATS)})
        /\ \A i \in 1..Len(tr.keys) :
              /\ \A j \in 1..Len(tr.keys) :
                    i < j => trBefore(statsIndex(tr.keys[i]), statsIndex(tr.keys[j]))
              /\ _stats_key(tr.items[i].q) = tr.keys[i]
              /\ tr.items[i].count = SEARCH_STATS[statsIndex(tr.keys[i])].count

\* a search for the zone "a|b" was counted and the listing failed
C17_FailingListing ==
    /\ tr.pc = "resp" /\ tr.status = 500
    /\ \E i \in 1..Len(tr.keys) : tr.keys[i] = _stats_key(PlainQueryOf(sZonaBar))

\* C27: every key record_search stores is decoded without error by
\* parse_stats_key and encodes again to itself (the decoded values are the
\* normalised values of the search), keys with "|" in the zone or keywords
\* included, so no trending request fails after any sequence of searches.
C27_EveryStoredKeyDecodes ==
    /\ \A i \in 1..Len(SEARCH_STATS) :
          LET parsed == parse_stats_key(SEARCH_STATS[i].key)
          IN  ~parsed.raised /\ _stats_key(parsed.q) = SEARCH_STATS[i].key
    /\ tr.pc = "resp" => tr.status # 500

\* the key of a search for the zone "a|b" is stored and does not decode
C27_StoredKeyRaises ==
    \E i \in 1..Len(SEARCH_STATS) :
        /\ SEARCH_STATS[i].key = _stats_key(PlainQueryOf(sZonaBar))
        /\ parse_stats_key(SEARCH_STATS[i].key).raised

---------------------------------------------------------------------------
(* src/a.py:587-602: the keyword filter on its own.                        *)

MaxKwRows == 2

KwRow(titulo, descripcion, m2, dormitorios, banos) ==
    [Row(titulo, <<>>, dormitorios, banos, descripcion, <<>>) EXCEPT !.m2 = m2]

\* rows after a.py:632-637 (every column present, text, stripped)
KwRows ==
    { KwRow(<<"D","e","p","a"," ","P","I","S","C","I","N","A">>, <<>>, <<>>, <<>>, <<>>),
      KwRow(<<"D","e","p","a">>, <<"c","o","n"," ","P","i","s","c","i","n","a"," ","y"," ","a",".","c">>, <<"8","0">>, <<"2">>, <<"1">>),
      KwRow(<<"d","e","p","a"," ","p","i","s">>, <<"c","i","n","a">>, <<>>, <<>>, <<>>),
      KwRow(<<"L","o","f","t">>, <<"t","e","r","r","a","z","a"," ","a","b","c">>, <<"8">>, <<"0">>, <<"2">>) }

KwPalabras ==
    { <<>>, <<" ">>, <<" ", "\t">>,
      <<"p","i","s","c","i","n","a">>,
      <<" ","P","i","s","c","i","n","a"," "," ","D","E","P","A"," ">>,
      <<"p","i","s","c","i","n","a"," ","l","o","f","t">>,
      <<"p","i","s"," ","c","i","n","a">>,
      <<"8","0"," ","2">>,
      <<"a",".","c">> }

RECURSIVE KwFrames(_)
KwFrames(n) ==
    IF n = 0 THEN {<<>>}
    ELSE KwFrames(n - 1) \cup {Append(df, r) : df \in KwFrames(n - 1), r \in KwRows}

KeywordFilterCall ==
    /\ kwf.pc = "idle"
    /\ \E df \in KwFrames(MaxKwRows), palabras_clave \in KwPalabras :
          kwf' = [pc |-> "done", df |-> df, palabras_clave |-> palabras_clave,
                  out |-> _filter_by_keywords(df, palabras_clave)]
    /\ UNCHANGED <<searchVars, pgVars, fVars, featVars, authVars, adVars, combineVars, thVars, homeVars,
                   nes, tr, sel>>

KeywordFilterReturn ==
    /\ kwf.pc = "done"
    /\ kwf' = KwfIdle
    /\ UNCHANGED <<searchVars, pgVars, fVars, featVars, authVars, adVars, combineVars, thVars, homeVars,
                   nes, tr, sel>>

NextKeywordFilter == KeywordFilterCall \/ KeywordFilterReturn

SpecKeywordFilter == Init /\ [][NextKeywordFilter]_vars

\* the tokens of a keyword string: its maximal runs of non-whitespace
kwTokens(s) ==
    { SubSeq(s, a, b) : a \in 1..Len(s), b \in 1..Len(s) } \cap
    { SubSeq(s, a, b) : <<a, b>> \in
        { ab \in (1..Len(s)) \X (1..Len(s)) :
            /\ ab[1] <= ab[2]
            /\ \A k \in ab[1]..ab[2] : ~IsSpace(s[k])
            /\ (ab[1] = 1 \/ IsSpace(s[ab[1] - 1]))
            /\ (ab[2] = Len(s) \/ IsSpace(s[ab[2] + 1])) } }

\* title, description, area, bedrooms and bathrooms, a blank between each
kwFields(r) ==
    r.titulo \o <<" ">> \o r.descripcion \o <<" ">> \o r.m2 \o <<" ">>
       \o r.dormitorios \o <<" ">> \o r.banos

\* tok occurs in text, letter case set aside
kwOccurs(tok, text) ==
    \E i \in 0..(Len(text) - Len(tok)) :
        \A k \in 1..Len(tok) : lowerChar(text[i + k]) = lowerChar(tok[k])

kwKeeps(r, palabras_clave) ==
    \A tok \in kwTokens(palabras_clave) : kwOccurs(tok, kwFields(r))

\* C19: the keyword filter, given a keyword string with at least one token,
\* returns the records, in their order, for which every whitespace-separated
\* token of the string occurs, letter case set aside, in the record's title,
\* description, area, bedrooms and bathrooms joined by blanks; given an
\* empty or blank string it returns every record.
C19_KeptIffEveryToken ==
    kwf.pc = "done" =>
        IF kwTokens(kwf.palabras_clave) = {}
          THEN kwf.out = kwf.df
          ELSE kwf.out = SelectSeq(kwf.df, LAMBDA r : kwKeeps(r, kwf.palabras_clave))

\* two tokens in capitals with blanks around: one record holds both and is
\* kept, one holds only the first and is dropped
C19_Witness ==
    /\ kwf.pc = "done"
    /\ Cardinality(kwTokens(kwf.palabras_clave)) = 2
    /\ Len(kwf.df) = 2 /\ Len(kwf.out) = 1
    /\ kwf.df[1].titulo = <<"d","e","p","a"," ","p","i","s">>
    /\ kwf.out[1] = kwf.df[2]


---------------------------------------------------------------------------
(* src/a.py:116-127, 282, 373-388, 488, 527: the selector chains.  A page  *)
(* is the sequence of its elements in document order; each element says    *)
(* which selectors of the chain match it.                                  *)

MaxSelElements == 2

\* number of selectors in each adapter's chain
chainLen(name) ==
    CASE name = "nestoria" -> NESTORIA_SELECTORS
      [] name = "infocasas" -> 4
      [] name = "urbania" -> 6
      [] name = "properati" -> 3
      [] name = "doomos" -> 3

\* `soup.select(a) or soup.select(b) or ...`, and urbania's loop with break
RECURSIVE firstMatching(_, _, _)
firstMatching(soup, k, n) ==
    IF k > n THEN <<>>
    ELSE IF selected(soup, k) # <<>> THEN selected(soup, k)
    ELSE firstMatching(soup, k + 1, n)

\* the elements an adapter goes on to read
adapterCards(name, soup) ==
    IF name = "nestoria" THEN nestoriaItems(soup)
    ELSE firstMatching(soup, 1, chainLen(name))

\* a.py:288, 396, 494, 535: the host put before a relative href
hostOf(name) ==
    CASE name = "infocasas" -> <<"h","t","t","p","s",":","/","/","w","w","w",".","i","n","f","o","c","a","s","a","s",".","c","o","m",".","p","e">>
      [] name = "urbania" -> <<"h","t","t","p","s",":","/","/","u","r","b","a","n","i","a",".","p","e">>
      [] name = "properati" -> <<"h","t","t","p","s",":","/","/","w","w","w",".","p","r","o","p","e","r","a","t","i",".","c","o","m",".","p","e">>
      [] name = "doomos" -> <<"h","t","t","p",":","/","/","w","w","w",".","d","o","o","m","o","s",".","c","o","m",".","p","e">>
      [] OTHER -> sNestoriaHost

\* a.py:285-288, 393-396, 492-494, 531-535: the link read from a card
cardLink(name, e) ==
    IF ~e.anchor \/ e.href = <<>> THEN <<>>
    ELSE IF Head(e.href) = "/" THEN hostOf(name) \o e.href
    ELSE e.href

\* a.py:303-306, 498-502, 539-542: every card read gives a record
RECURSIVE recordPerCard(_, _)
recordPerCard(name, cards) ==
    IF cards = <<>> THEN <<>>
    ELSE <<[link |-> cardLink(name, Head(cards)), el |-> Head(cards).id]>>
           \o recordPerCard(name, Tail(cards))

\* a.py:391-415: urbania leaves out a card without a link and a card whose
\* link it has seen in this call
RECURSIVE urbaniaScan(_, _, _)
urbaniaScan(cards, seen, results) ==
    IF cards = <<>> THEN [results |-> results, seen |-> seen]
    ELSE LET link == cardLink("urbania", Head(cards))
         IN  IF link = <<>> \/ link \in seen
               THEN urbaniaScan(Tail(cards), seen, results)
               ELSE urbaniaScan(Tail(cards), seen \cup {link},
                                Append(results, [link |-> link, el |-> Head(cards).id]))

\* the records one page gives: a.py:128-167 for nestoria, a.py:391-415 for
\* urbania, a.py:283-306, 490-502, 529-542 for the others
adapterRecords(name, soup) ==
    IF name = "nestoria"
      THEN _parse_nestoria_listings_from_soup(soup, {}).results
    ELSE IF name = "urbania"
      THEN urbaniaScan(adapterCards(name, soup), {}, <<>>).results
    ELSE recordPerCard(name, adapterCards(name, soup))

SelElements(id) ==
    { Element(id, sels, FALSE, FALSE, href # <<>>, href, <<>>) :
        sels \in {{}, {1}, {2}, {1, 2}, {3}}, href \in {<<>>, sLinkA, sLinkB} }

RECURSIVE SelSoups(_)
SelSoups(n) ==
    IF n = 0 THEN {<<>>}
    ELSE SelSoups(n - 1) \cup {Append(s, e) : s \in {t \in SelSoups(n - 1) : Len(t) = n - 1},
                                              e \in SelElements(n)}

SelectorsRun ==
    /\ sel.pc = "idle"
    /\ \E name \in AdapterNames, soup \in SelSoups(MaxSelElements) :
          sel' = [pc |-> "done", name |-> name, soup |-> soup,
                  cards |-> adapterCards(name, soup),
                  results |-> adapterRecords(name, soup)]
    /\ UNCHANGED <<searchVars, pgVars, fVars, featVars, authVars, adVars, combineVars, thVars, homeVars,
                   nes, kwf, tr>>

SelectorsDone ==
    /\ sel.pc = "done"
    /\ sel' = SelIdle
    /\ UNCHANGED <<searchVars, pgVars, fVars, featVars, authVars, adVars, combineVars, thVars, homeVars,
                   nes, kwf, tr>>

NextSelectors == SelectorsRun \/ SelectorsDone

SpecSelectors == Init /\ [][NextSelectors]_vars

\* the selectors of the chain that match something on the page
selMatching(name, soup) == {k \in 1..chainLen(name) : selected(soup, k) # <<>>}

\* the cards come from the first matching selector and no other, and no
\* element of the page is behind two records
selFirstOnly ==
    /\ selMatching(sel.name, sel.soup) # {} =>
          sel.cards = selected(sel.soup, Min(selMatching(sel.name, sel.soup)))
    /\ \A i, j \in 1..Len(sel.results) :
          i # j => sel.results[i].el # sel.results[j].el

\* C20: every adapter, scrape_nestoria included, reads its items from the
\* first selector of its chain that matches anything and from that one
\* alone, so that no page element is extracted twice.
C20_FirstStrategyOnly == sel.pc = "done" => selFirstOnly

\* the same for the adapters other than scrape_nestoria
C20_FirstStrategyOnlyOthers ==
    (sel.pc = "done" /\ sel.name # "nestoria") => selFirstOnly

\* scrape_nestoria on a page whose one element without a link matches the
\* first two selectors: two records from the one element
C20_NestoriaTwice ==
    /\ sel.pc = "done" /\ sel.name = "nestoria"
    /\ Len(sel.soup) = 1 /\ sel.soup[1].sels = {1, 2}
    /\ Len(sel.results) = 2


\* C21: for each of the five adapters, the records one call returns hold no
\* two records with the same non-empty link.
C21_NoRepeatedLinkInCall ==
    sel.pc = "done" =>
        \A i, j \in 1..Len(sel.results) :
            (i # j /\ sel.results[i].link # <<>>)
                => sel.results[i].link # sel.results[j].link

\* the same for the two adapters that keep a set of the links seen
C21_NoRepeatedLinkWhereSeenSet ==
    (sel.pc = "done" /\ sel.name \in {"nestoria", "urbania"}) =>
        \A i, j \in 1..Len(sel.results) :
            (i # j /\ sel.results[i].link # <<>>)
                => sel.results[i].link # sel.results[j].link

\* scrape_properati on a page with two cards that link to the same address:
\* two records with that link
C21_RepeatedLink ==
    /\ sel.pc = "done" /\ sel.name = "properati"
    /\ Len(sel.results) = 2
    /\ sel.results[1].link = sel.results[2].link /\ sel.results[1].link # <<>>

---------------------------------------------------------------------------
(* SpecFeatured: mark_featured_one on its own, on lists of catalogue       *)
(* listings some of which already carry a featured mark.                   *)

MaxFeatured == 3      \* listings in one list

\* a catalogue listing, marked or not
FeaturedInputs ==
    {[Catalogue[i] EXCEPT !.is_featured = f] : i \in 1..Len(Catalogue), f \in BOOLEAN}

MarkFeaturedCall ==
    /\ mf.pc = "idle"
    /\ \E n \in 0..MaxFeatured :
          \E items \in [1..n -> FeaturedInputs] :
              mf' = [pc |-> "done", items |-> items, out |-> mark_featured_one(items)]
    /\ UNCHANGED <<searchVars, pgVars, fVars, adVars, combineVars, thVars, homeVars,
                   callVars, authVars>>

MarkFeaturedReturn ==
    /\ mf.pc = "done"
    /\ mf' = MfIdle
    /\ UNCHANGED <<searchVars, pgVars, fVars, adVars, combineVars, thVars, homeVars,
                   callVars, authVars>>

NextFeatured == MarkFeaturedCall \/ MarkFeaturedReturn

SpecFeatured == Init /\ [][NextFeatured]_vars

\* C26: on a non-empty list mark_featured_one marks exactly one record, the
\* one of lowest index among those of maximal score, unmarks every other and
\* leaves order, length and every other field as they were; an empty list
\* comes back empty.
C26_OneFeaturedFirstBest ==
    mf.pc = "done" =>
        /\ Len(mf.out) = Len(mf.items)
        /\ \A i \in 1..Len(mf.items) :
              [mf.out[i] EXCEPT !.is_featured = mf.items[i].is_featured] = mf.items[i]
        /\ mf.items # <<>> =>
              /\ Cardinality({i \in 1..Len(mf.out) : mf.out[i].is_featured}) = 1
              /\ mf.out[FirstBest(mf.items)].is_featured

\* two listings share the maximal score, the later one came in marked, and
\* the earlier one alone is marked in the result
C26_Witness ==
    /\ mf.pc = "done" /\ Len(mf.items) = MaxFeatured
    /\ \E i, j \in 1..Len(mf.items) :
          /\ i < j /\ i = FirstBest(mf.items)
          /\ score_property(mf.items[i]) = score_property(mf.items[j])
          /\ mf.items[j].is_featured /\ ~mf.items[i].is_featured
          /\ mf.out[i].is_featured /\ ~mf.out[j].is_featured

---------------------------------------------------------------------------
(* src/auth.py:69-116: login, refresh and logout.  The three endpoints are  *)
(* plain functions (main.py:303-313), run on threadpool threads, each with  *)
(* its own database session; a query and an update-with-commit are one      *)
(* step each.  The clock is in days.                                        *)

REFRESH_TTL_DAYS == 15
MaxAuthCalls == 4     \* handler calls begun in one behaviour
MaxAuthClock == 20    \* last clock reading
AuthClockTicks == {10}

\* the users table: user 1 is active, user 2 is not (nothing in src/ changes it)
ActiveUsers == {1}
AuthUsers == {1, 2}

accessToken(sub, t) == [type |-> "access", sub |-> sub, jti |-> 0, exp |-> t + 1]
refreshToken(sub, jti, t) ==
    [type |-> "refresh", sub |-> sub, jti |-> jti, exp |-> t + REFRESH_TTL_DAYS]

\* auth.py:45-46: jwt.decode raises on a token that is no token of ours and
\* on one past its exp
decodes(token, t) == token.type # "garbage" /\ ~(t > token.exp)

\* the session row found whatever its is_revoked
sessionFor_revokedToo(table, jti) ==
    LET rows == SelectSeq(table, LAMBDA s : s.refresh_jti = jti)
    IN  IF rows = <<>> THEN None ELSE Some(rows[1])

\* auth.py:94: .filter(refresh_jti == jti, is_revoked == False).first()
sessionFor(table, jti) ==
    LET rows == SelectSeq(table, LAMBDA s : s.refresh_jti = jti /\ ~s.is_revoked)
    IN  IF rows = <<>> THEN None ELSE Some(rows[1])

\* auth.py:113: .filter(refresh_jti == jti).update({"is_revoked": True})
revoke(table, jti) ==
    [i \in 1..Len(table) |->
        IF table[i].refresh_jti = jti THEN [table[i] EXCEPT !.is_revoked = TRUE]
        ELSE table[i]]

authBegin(t, op, token) ==
    [auth EXCEPT !.calls[t] = [AuthIdle EXCEPT !.pc = "decode", !.op = op,
                                               !.token = token,
                                               !.revokedAtStart = auth.loggedOut],
                 !.started = @ + 1]

authEnd(a, t, status) == [a EXCEPT !.calls[t].pc = "done", !.calls[t].status = status]

notAuthVars == <<searchVars, pgVars, fVars, adVars, combineVars, thVars, homeVars,
                 callVars, featVars>>

\* auth.py:69-83: bad credentials or an inactive user: 400; else a session
\* row with a new jti is committed and the tokens are made
Login(t) ==
    /\ auth.calls[t].pc = "idle"
    /\ auth.started < MaxAuthCalls
    /\ \E user \in AuthUsers, password_ok \in BOOLEAN :
          LET a == authBegin(t, "login", NoToken)
              jti == auth.jtis + 1
          IN  IF ~password_ok \/ user \notin ActiveUsers
              THEN /\ auth' = authEnd(a, t, 400)
                   /\ UNCHANGED Session
              ELSE /\ Session' = Append(Session,
                                   [user_id |-> user, refresh_jti |-> jti,
                                    is_revoked |-> FALSE,
                                    expires_at |-> utcnow + REFRESH_TTL_DAYS])
                   /\ auth' = [authEnd(a, t, 200) EXCEPT
                                 !.jtis = jti,
                                 !.issued = @ \cup {accessToken(user, utcnow),
                                                    refreshToken(user, jti, utcnow)}]
    /\ UNCHANGED <<utcnow, notAuthVars>>

\* a client calls /auth/refresh with a token it holds or with anything else
RefreshCall(t) ==
    /\ auth.calls[t].pc = "idle"
    /\ auth.started < MaxAuthCalls
    /\ \E token \in auth.issued \cup {NoToken} :
          auth' = authBegin(t, "refresh", token)
    /\ UNCHANGED <<Session, utcnow, notAuthVars>>

\* auth.py:86-92
RefreshDecode(t) ==
    /\ auth.calls[t].pc = "decode" /\ auth.calls[t].op = "refresh"
    /\ LET token == auth.calls[t].token
       IN  auth' = IF ~decodes(token, utcnow) \/ token.type # "refresh"
                   THEN authEnd(auth, t, 401)
                   ELSE [auth EXCEPT !.calls[t].pc = "query"]
    /\ UNCHANGED <<Session, utcnow, notAuthVars>>

\* auth.py:94-103
RefreshQuery(t) ==
    /\ auth.calls[t].pc = "query" /\ auth.calls[t].op = "refresh"
    /\ LET token == auth.calls[t].token
           sess == sessionFor(Session, token.jti)
       IN  auth' =
             IF sess = None \/ sess[1].expires_at < utcnow
             THEN authEnd(auth, t, 401)
             ELSE IF token.sub \notin ActiveUsers
             THEN authEnd(auth, t, 401)
             ELSE [authEnd(auth, t, 200) EXCEPT
                     !.issued = @ \cup {accessToken(token.sub, utcnow),
                                        refreshToken(token.sub, token.jti, utcnow)}]
    /\ UNCHANGED <<Session, utcnow, notAuthVars>>

\* a client calls /auth/logout
LogoutCall(t) ==
    /\ auth.calls[t].pc = "idle"
    /\ auth.started < MaxAuthCalls
    /\ \E token \in auth.issued \cup {NoToken} :
          auth' = authBegin(t, "logout", token)
    /\ UNCHANGED <<Session, utcnow, notAuthVars>>

\* auth.py:106-110: a token that does not decode, or has no jti (an access
\* token): 400
LogoutDecode(t) ==
    /\ auth.calls[t].pc = "decode" /\ auth.calls[t].op = "logout"
    /\ LET token == auth.calls[t].token
       IN  auth' = IF ~decodes(token, utcnow) \/ token.type # "refresh"
                   THEN authEnd(auth, t, 400)
                   ELSE [auth EXCEPT !.calls[t].pc = "update"]
    /\ UNCHANGED <<Session, utcnow, notAuthVars>>

\* auth.py:112-116
LogoutUpdate(t) ==
    /\ auth.calls[t].pc = "update" /\ auth.calls[t].op = "logout"
    /\ LET jti == auth.calls[t].token.jti
           updated == Len(SelectSeq(Session, LAMBDA s : s.refresh_jti = jti))
       IN  /\ Session' = revoke(Session, jti)
           /\ auth' = IF updated = 0 THEN authEnd(auth, t, 404)
                      ELSE [authEnd(auth, t, 200) EXCEPT !.loggedOut = @ \cup {jti}]
    /\ UNCHANGED <<utcnow, notAuthVars>>

\* the handler has answered
AuthReturn(t) ==
    /\ auth.calls[t].pc = "done"
    /\ auth' = [auth EXCEPT !.calls[t] = AuthIdle]
    /\ UNCHANGED <<Session, utcnow, notAuthVars>>

\* datetime.utcnow() moves on
AuthTick ==
    /\ \E d \in AuthClockTicks :
          /\ utcnow + d <= MaxAuthClock
          /\ utcnow' = utcnow + d
    /\ UNCHANGED <<Session, auth, notAuthVars>>

NextAuth ==
    \/ \E t \in AuthThreads : Login(t)
    \/ \E t \in AuthThreads : RefreshCall(t)
    \/ \E t \in AuthThreads : RefreshDecode(t)
    \/ \E t \in AuthThreads : RefreshQuery(t)
    \/ \E t \in AuthThreads : LogoutCall(t)
    \/ \E t \in AuthThreads : LogoutDecode(t)
    \/ \E t \in AuthThreads : LogoutUpdate(t)
    \/ \E t \in AuthThreads : AuthReturn(t)
    \/ AuthTick

SpecAuth == Init /\ [][NextAuth]_vars

\* every refresh call begun after a logout succeeded for its session id has
\* been answered with 401 when it is answered
refreshAfterLogoutRejected ==
    \A t \in AuthThreads :
        LET c == auth.calls[t]
        IN  (c.pc = "done" /\ c.op = "refresh" /\ c.token.jti \in c.revokedAtStart)
                => c.status = 401

\* no session goes from revoked to not revoked, and none is removed
revokedStays ==
    /\ Len(Session') >= Len(Session)
    /\ \A i \in 1..Len(Session) :
          /\ Session'[i].refresh_jti = Session[i].refresh_jti
          /\ Session[i].is_revoked => Session'[i].is_revoked

\* a step of a refresh call leaves the sessions table as it is
refreshReadsOnly ==
    \A t \in AuthThreads :
        (auth'.calls[t] # auth.calls[t]
           /\ (auth.calls[t].op = "refresh" \/ auth'.calls[t].op = "refresh"))
            => Session' = Session

\* C30: once a logout has succeeded for a session id, every refresh call
\* begun later with a token of that session id is answered with 401, in any
\* sequence of logins, refreshes and logouts; is_revoked never goes from true
\* back to false; refresh_handler neither adds nor changes a session.
C30_RevokedSessionNeverRefreshes ==
    /\ [] refreshAfterLogoutRejected
    /\ [][revokedStays /\ refreshReadsOnly]_vars

\* a session was refreshed, then logged out, and a later refresh with the
\* token the first refresh gave, neither token nor session being past their
\* expiry, was answered with 401
C30_Witness ==
    \E t \in AuthThreads :
        LET c == auth.calls[t]
        IN  /\ c.pc = "done" /\ c.op = "refresh" /\ c.status = 401
            /\ c.token.type = "refresh" /\ c.token.jti \in c.revokedAtStart
            /\ c.token.exp > REFRESH_TTL_DAYS /\ utcnow <= c.token.exp
            /\ \E i \in 1..Len(Session) :
                  /\ Session[i].refresh_jti = c.token.jti
                  /\ Session[i].is_revoked
                  /\ Session[i].expires_at >= utcnow

=============================================================================
